---- MODULE Spec2Model ----
(***************************************************************************)
(* Hybrid retrieval and index caching of rag-sintari.                      *)
(*                                                                         *)
(* Numbers.  Normalised and blended scores are exact rationals, kept as    *)
(* reduced fractions [num, den].  Raw scores are integers counted in       *)
(* ticks; the tolerance 1e-9 of retriever.py line 69 is EPS ticks.  Raw    *)
(* scores produced inside retrieve lie on a grid of TicksPerUnit ticks,    *)
(* so two different retrieval scores always differ by at least the         *)
(* tolerance; score lists closer than the tolerance are covered by the     *)
(* specification of norm alone (SpecNorm).                                 *)
(* Embeddings are integer vectors; a unit vector has length UnitLen.       *)
(* Texts are sequences of words (what str.split() returns).                *)
(***************************************************************************)
EXTENDS Integers, Sequences, FiniteSets, TLC

VARIABLES
    items,      \* InMemoryIndex._items: the items in insertion order
    cfg,        \* the configuration read by Retriever.__init__ / RAGEngine.__init__
    disk,       \* the files under index_cache/: path -> file
    hist,       \* history: per workspace, what its latest save_index call was given
    api,        \* the API process: _engines, the engines built, the requests in flight
    ret         \* what the last operation returned or raised

vars == <<items, cfg, disk, hist, api, ret>>

\* ---------------------------------------------------------------- bounds
MaxItems == 3       \* most items held by the index
MaxTopK == 2        \* largest configured retrieval.top_k
MaxDocs == 2        \* most documents in one document list
MaxLen == 3         \* longest score list given to norm on its own
MaxScore == 3       \* largest raw score (in ticks) given to norm on its own
MaxText == 7        \* longest text (in characters) given to chunk_text on its own
MaxTarget == 3      \* largest target_tokens and overlap_tokens given to chunk_text
MaxRows == 4        \* most chunk records of a snapshot an upload is added to
MaxReqs == 3        \* most requests the API process is given

\* ------------------------------------------------------------- constants
EPS == 2            \* 1e-9, in ticks
UnitLen == 5        \* length of a unit vector
TicksPerUnit == 2   \* grid of the raw scores computed by retrieve, in ticks

Null == "<None>"                    \* Python None, a key that dict.get does not find
Truthy(v) == v # Null /\ v # ""     \* truth value of an Optional[str]

\* ------------------------------------------------------------- sequences
Range(s) == {s[i] : i \in DOMAIN s}
Min2(a, b) == IF a < b THEN a ELSE b
SeqMin(s) == CHOOSE m \in Range(s) : \A x \in Range(s) : m <= x
SeqMax(s) == CHOOSE m \in Range(s) : \A x \in Range(s) : m >= x
Prefix(s, n) == SubSeq(s, 1, Min2(n, Len(s)))       \* s[:n] for n >= 0
\* [x for x in s if ...]: the elements of s at the positions in keep, in order
KeepAt(s, keep) ==
    LET at(k) == CHOOSE i \in keep : Cardinality({j \in keep : j < i}) = k - 1
    IN  [k \in 1..Cardinality(keep) |-> s[at(k)]]

RECURSIVE SumSeq(_)
SumSeq(s) == IF s = <<>> THEN 0 ELSE Head(s) + SumSeq(Tail(s))

\* ------------------------------------------------------------- rationals
RECURSIVE GCD(_, _)
GCD(a, b) == IF b = 0 THEN a ELSE GCD(b, a % b)
Abs(x) == IF x < 0 THEN -x ELSE x
Frac(n, d) ==
    LET g == GCD(Abs(n), d)
    IN  IF n = 0 THEN [num |-> 0, den |-> 1] ELSE [num |-> n \div g, den |-> d \div g]
Zero == [num |-> 0, den |-> 1]
One == [num |-> 1, den |-> 1]
\* float("nan"): every comparison with it is false
NaN == [num |-> 0, den |-> 0]
FracGE(a, b) == a.num * b.den >= b.num * a.den
FracGT(a, b) == a.num * b.den > b.num * a.den
\* (p/100)*a + (q/100)*b
Blend(p, a, q, b) ==
    IF a = NaN \/ b = NaN THEN NaN
    ELSE Frac(p * a.num * b.den + q * b.num * a.den, 100 * a.den * b.den)

\* --------------------------------------------------------------- vectors
Dot(u, v) == SumSeq([i \in DOMAIN u |-> u[i] * v[i]])
VecNorm(v) == CHOOSE n \in 0..(4 * UnitLen) : n * n = Dot(v, v)
\* the division left out
Normalize_Skip(v) == v

\* emb / (norm or 1.0), for vectors whose length is a whole number
Normalize(v) ==
    LET n == VecNorm(v)
    IN  IF n = 0 THEN v ELSE [i \in DOMAIN v |-> (v[i] * UnitLen) \div n]

\* ------------------------------------------------------------------ data
Workspaces == {"w1", "w2"}

Meta(cid, ws, name, did, text) ==
    [chunk_id |-> cid, workspace_id |-> ws, document_name |-> name,
     document_id |-> did, page_number |-> 1, text |-> text]
Item(cid, emb, md) == [id |-> cid, embedding |-> emb, metadata |-> md]

\* the items the callers add: CLI records carry a name and an id
\* (chat_cli.py 101-110), upload and script records a name only
\* (main.py 741-749, index_workspace.py 154-162)
ItemPool ==
    { Item("c1", <<3, 4>>,  Meta("c1", "w1", "a.txt", "d1", <<"y", "x">>)),
      Item("c2", <<0, 10>>, Meta("c2", "w1", "b.txt", "d2", <<"Y", "y">>)),
      Item("c3", <<5, 0>>,  Meta("c3", "w2", "a.txt", "d3", <<"x">>)),
      Item("c4", <<8, 6>>,  Meta("c4", "w2", Null, "d1", <<"y">>)),
      Item("c1", <<0, 0>>,  Meta("c1", "w1", "a.txt", "d1", <<"x", "x">>)) }

Questions == { <<"X", "y">>, <<"q">> }
QueryVecs == { <<3, 4>>, <<10, 0>> }
DocIdLists == { {}, {"d1"}, {"a.txt", "d2"} }
Modes == {"bm25", "hybrid", "embeddings"}
\* retrieval.hybrid.alpha and .beta in hundredths: the defaults, and a pair
\* that does not sum to 1
Weights == { [alpha |-> 35, beta |-> 65], [alpha |-> 50, beta |-> 100] }

\* ---------------------------------------------------- InMemoryIndex.add
IndexOfId(seq, cid) ==
    IF \E i \in DOMAIN seq : seq[i].id = cid
    THEN CHOOSE i \in DOMAIN seq : seq[i].id = cid ELSE 0

\* setdefault instead of assignment: the first item of an id stays
PutItem_KeepFirst(seq, it) ==
    LET stored == Item(it.id, Normalize(it.embedding), it.metadata)
    IN  IF IndexOfId(seq, it.id) = 0 THEN Append(seq, stored) ELSE seq

\* self._items[item.id] = IndexItem(...): a dict keeps the position of a key
\* that is assigned again
PutItem(seq, it) ==
    LET stored == Item(it.id, Normalize(it.embedding), it.metadata)
        i == IndexOfId(seq, it.id)
    IN  IF i = 0 THEN Append(seq, stored) ELSE [seq EXCEPT ![i] = stored]

RECURSIVE AddAll(_, _)
AddAll(seq, new) ==
    IF new = <<>> THEN seq ELSE AddAll(PutItem(seq, Head(new)), Tail(new))

\* ------------------------------------------------------ Retriever.retrieve
\* the workspace test left out
allowed_NoWorkspace(item, workspace_id, document_ids) ==
    LET md == item.metadata
        did == IF Truthy(md.document_name) THEN md.document_name ELSE md.document_id
    IN  ~(document_ids # {} /\ did \notin document_ids)

allowed(item, workspace_id, document_ids) ==
    LET md == item.metadata
        did == IF Truthy(md.document_name) THEN md.document_name ELSE md.document_id
    IN  /\ ~(Truthy(workspace_id) /\ md.workspace_id # workspace_id)
        /\ ~(document_ids # {} /\ did \notin document_ids)

\* the allow-list not applied
Candidates_IgnoreDocIds(index, workspace_id, document_ids) ==
    KeepAt(index, {i \in DOMAIN index : allowed(index[i], workspace_id, {})})

Candidates(index, workspace_id, document_ids) ==
    KeepAt(index, {i \in DOMAIN index : allowed(index[i], workspace_id, document_ids)})

\* t.lower().split() on a text already split into words
LowerWord(w) == IF w = "Y" THEN "y" ELSE IF w = "X" THEN "x" ELSE w
Tokens(text) == [i \in DOMAIN text |-> LowerWord(text[i])]

\* BM25Okapi(tokens).get_scores(query): rank_bm25 is a third-party package;
\* its score is kept as a sum over the query words of term frequency times
\* an inverse document frequency counted within the corpus it was built on
TermFreq(word, doc) == Cardinality({i \in DOMAIN doc : doc[i] = word})
DocFreq(word, corpus) == Cardinality({i \in DOMAIN corpus : TermFreq(word, corpus[i]) > 0})
Idf(word, corpus) ==
    IF DocFreq(word, corpus) = 0 THEN 0 ELSE Len(corpus) - DocFreq(word, corpus) + 1
BM25Scores(corpus, query) ==
    [i \in DOMAIN corpus |->
        TicksPerUnit *
        SumSeq([j \in DOMAIN query |-> TermFreq(query[j], corpus[i]) * Idf(query[j], corpus)])]

\* the lexical model built over every item of the index
LexScores_Global(index, candidates, query) ==
    LET all == [i \in DOMAIN index |-> Tokens(index[i].metadata.text)]
    IN  [i \in DOMAIN candidates |->
            TicksPerUnit *
            SumSeq([j \in DOMAIN query |->
                       TermFreq(query[j], Tokens(candidates[i].metadata.text))
                           * Idf(query[j], all)])]

\* BM25Okapi over the texts of the candidates, scored against the query
LexScores(index, candidates, query) ==
    BM25Scores([i \in DOMAIN candidates |-> Tokens(candidates[i].metadata.text)], query)

EmbScores(candidates, q_emb) ==
    [i \in DOMAIN candidates |->
        IF candidates[i].embedding = <<>> THEN 0
        ELSE TicksPerUnit * Dot(q_emb, candidates[i].embedding)]

\* the equal-scores branch left out
norm_NoDegenerate(s) ==
    IF s = <<>> THEN <<>>
    ELSE LET s_min == SeqMin(s)
             s_max == SeqMax(s)
         IN  [i \in DOMAIN s |-> Frac(s[i] - s_min, s_max - s_min)]

norm(s) ==
    IF s = <<>> THEN <<>>
    ELSE LET s_min == SeqMin(s)
             s_max == SeqMax(s)
         IN  IF s_max - s_min < EPS
             THEN [i \in DOMAIN s |-> IF s_max = 0 THEN Zero ELSE One]
             ELSE [i \in DOMAIN s |-> Frac(s[i] - s_min, s_max - s_min)]

MethodOf(mode) ==
    IF mode = "bm25" THEN "bm25" ELSE IF mode = "hybrid" THEN "hybrid" ELSE "embeddings"

Combine(c, bm25_norm, emb_norm) ==
    IF c.mode = "bm25" THEN bm25_norm
    ELSE IF c.mode = "hybrid"
         THEN [i \in DOMAIN bm25_norm |-> Blend(c.alpha, bm25_norm[i], c.beta, emb_norm[i])]
         ELSE emb_norm

\* sorted(pairs, key=score, reverse=True): stable, equal scores keep their order
RECURSIVE SortDesc(_)
SortDesc(pairs) ==
    IF pairs = <<>> THEN <<>>
    ELSE LET n == Len(pairs)
             done == SortDesc(SubSeq(pairs, 1, n - 1))
             x == pairs[n]
             p == Cardinality({i \in DOMAIN done : FracGE(done[i].score, x.score)})
         IN  SubSeq(done, 1, p) \o <<x>> \o SubSeq(done, p + 1, Len(done))

Reverse(s) == [i \in DOMAIN s |-> s[Len(s) + 1 - i]]

\* reverse=True forgotten
Rank_Ascending(candidates, combined, top_k) ==
    Prefix(Reverse(SortDesc([i \in DOMAIN candidates |->
                                [item |-> candidates[i], score |-> combined[i]]])), top_k)

Rank(candidates, combined, top_k) ==
    Prefix(SortDesc([i \in DOMAIN candidates |->
                        [item |-> candidates[i], score |-> combined[i]]]), top_k)

\* ------------------------------------- InMemoryIndex.delete, clear, query
\* self._items.pop(_id, None) for every id of the list
DeleteAll(seq, ids) == KeepAt(seq, {i \in DOMAIN seq : seq[i].id \notin Range(ids)})

\* self._items.clear()
ClearAll(seq) == <<>>

\* a filter is the list of the (key, value) pairs of the dict; None and {}
\* are both the empty list
NoFilter == <<>>
Filters ==
    { NoFilter,
      <<<<"workspace_id", "w1">>>>,
      <<<<"workspace_id", "w2">>, <<"document_id", "d1">>>>,
      <<<<"document_name", Null>>>>,
      <<<<"lang", "sv">>>> }

\* meta.get(key)
MetaGet(meta, key) == IF key \in DOMAIN meta THEN meta[key] ELSE Null

\* the test returns True for every item
match_filter_Any(meta, flt) == TRUE

match_filter(meta, flt) == \A i \in DOMAIN flt : MetaGet(meta, flt[i][1]) = flt[i][2]

\* the cosine of two vectors of the grid
Cosine(q, e) == Frac(Dot(q, e), UnitLen * UnitLen)

\* np.dot raises ValueError for vectors of different lengths; the empty
\* index returns before the query vector is looked at
Query(index, embedding, top_k, flt) ==
    LET q == Normalize(embedding)
        kept == KeepAt(index, {i \in DOMAIN index :
                                  flt = NoFilter \/ match_filter(index[i].metadata, flt)})
        hits == [i \in DOMAIN kept |->
                    [id |-> kept[i].id, score |-> Cosine(q, kept[i].embedding),
                     metadata |-> kept[i].metadata]]
    IN  IF index = <<>>
        THEN [kind |-> "return", val |-> <<>>, exc |-> Null]
        ELSE IF \E i \in DOMAIN kept : Len(kept[i].embedding) # Len(q)
        THEN [kind |-> "raise", val |-> <<>>, exc |-> "ValueError"]
        ELSE [kind |-> "return", val |-> Prefix(SortDesc(hits), top_k), exc |-> Null]

\* the query vectors: two of the items' dimension, one of another
IndexQueryVecs == QueryVecs \cup {<<0, 0, 5>>}

\* ------------------------------------------------------------ passages
Passage(item, score, method) ==
    [text |-> item.metadata.text, score |-> score,
     metadata |-> [chunk_id |-> item.metadata.chunk_id,
                   workspace_id |-> item.metadata.workspace_id,
                   document_name |-> item.metadata.document_name,
                   document_id |-> item.metadata.document_id,
                   page_number |-> item.metadata.page_number,
                   text |-> item.metadata.text, method |-> method]]

\* the provider left alone in lexical-only mode
EmbTexts_SkipLexical(c, candidates, question) ==
    IF candidates = <<>> \/ c.mode = "bm25" THEN <<>> ELSE <<<<question>>>>

\* the argument lists of the calls of self._emb.embed_texts: none for an
\* empty pool, else the one call with [question]
EmbTexts(c, candidates, question) ==
    IF candidates = <<>> THEN <<>> ELSE <<<<question>>>>

\* emb is what self._emb.embed_texts([question]) does: it raises, or returns
\* one vector
Retrieve(index, c, question, workspace_id, document_ids, emb) ==
    LET candidates == Candidates(index, workspace_id, document_ids)
        calls == EmbTexts(c, candidates, question)
        q_emb == Normalize(emb.vec)
        bm25_norm == norm(LexScores(index, candidates, Tokens(question)))
        emb_norm == norm(EmbScores(candidates, q_emb))
        ranked == Rank(candidates, Combine(c, bm25_norm, emb_norm), c.top_k)
        pool == [i \in DOMAIN candidates |-> candidates[i].id]
    IN  IF candidates = <<>>
        THEN [kind |-> "return", val |-> <<>>, exc |-> Null, emb_calls |-> Len(calls),
              emb_texts |-> calls, pool |-> pool]
        ELSE IF calls # <<>> /\ ~emb.ok
        THEN [kind |-> "raise", val |-> <<>>, exc |-> "EmbeddingError",
              emb_calls |-> Len(calls), emb_texts |-> calls, pool |-> pool]
        ELSE [kind |-> "return",
              val |-> [i \in DOMAIN ranked |->
                          Passage(ranked[i].item, ranked[i].score, MethodOf(c.mode))],
              exc |-> Null, emb_calls |-> Len(calls), emb_texts |-> calls, pool |-> pool]

EmbOutcomes == {[ok |-> FALSE, vec |-> <<0, 0>>]} \cup {[ok |-> TRUE, vec |-> v] : v \in QueryVecs}

EngineEmbOutcomes == {[ok |-> FALSE, vec |-> <<0, 0>>], [ok |-> TRUE, vec |-> <<3, 4>>]}

\* ------------------------------------------------- CrossEncoderReranker
Raise == "<raise>"      \* the oracle call raises instead of answering

\* float(raw.replace(",", ".")), ValueError -> 0.0, then the clamp to [0,1];
\* float accepts "nan", and nan < 0.0 and nan > 1.0 are both false
ParseScore(raw) ==
    LET value == IF raw = "0.2" THEN Frac(1, 5)
                 ELSE IF raw = "nan" THEN NaN
                 ELSE IF raw = "0,9" THEN Frac(9, 10)
                 ELSE IF raw = "1.5" THEN Frac(3, 2)
                 ELSE IF raw = "-1" THEN Frac(-1, 1)
                 ELSE Zero
    IN  IF value.num < 0 THEN Zero
        ELSE IF value # NaN /\ FracGT(value, One) THEN One
        ELSE value

\* the answer of the i-th oracle call of one rerank
OracleAt(oracle, i) == IF i = 1 THEN oracle.first ELSE oracle.rest
OraclePlans ==
    { [first |-> "0.2", rest |-> "0,9"], [first |-> "abc", rest |-> "1.5"],
      [first |-> Raise, rest |-> "0,9"], [first |-> "-1", rest |-> Raise] }

\* str(c.get("chunk_id") or md.get("chunk_id") or idx)
RerankId(c, idx) ==
    IF Truthy(c.metadata.chunk_id) THEN c.metadata.chunk_id ELSE ToString(idx)

\* lines 118-123: the first candidate with the same chunk id or the same text
Original(candidates, rc) ==
    LET hit(c) == \/ (IF Truthy(c.metadata.chunk_id) THEN c.metadata.chunk_id ELSE "") = rc.id
                  \/ c.text = rc.text
    IN  IF \E i \in DOMAIN candidates : hit(candidates[i])
        THEN candidates[CHOOSE i \in DOMAIN candidates :
                            /\ hit(candidates[i])
                            /\ \A j \in 1..(i - 1) : ~hit(candidates[j])]
        ELSE candidates[1]

\* line 129 left out: the scored list in the order of the candidates
SortByFinal_Unsorted(scored) == scored

\* line 129: scored.sort(key=final_score, reverse=True)
SortByFinal(scored) ==
    LET keyed == SortDesc([i \in DOMAIN scored |-> [item |-> scored[i], score |-> scored[i].final_score]])
    IN  [i \in DOMAIN keyed |-> keyed[i].item]

\* an oracle failure scored 0.0 like an unparsable answer
Rerank_Swallow(c, candidates, top_k_out, oracle) ==
    LET enrich(i) ==
            LET ce == ParseScore(OracleAt(oracle, i))
                final == Blend(c.mix_weight, ce, 100 - c.mix_weight, candidates[i].score)
            IN  [text |-> candidates[i].text, score |-> candidates[i].score,
                 metadata |-> candidates[i].metadata, ce_score |-> ce, final_score |-> final]
    IN  [kind |-> "return",
         val |-> Prefix(SortByFinal([i \in DOMAIN candidates |-> enrich(i)]), top_k_out),
         exc |-> Null, oracle_calls |-> Len(candidates)]

Rerank(c, candidates, top_k_out, oracle) ==
    LET rcs == [i \in DOMAIN candidates |->
                   [id |-> RerankId(candidates[i], i - 1), text |-> candidates[i].text,
                    hybrid_score |-> candidates[i].score]]
        failed == {i \in DOMAIN candidates : OracleAt(oracle, i) = Raise}
        enrich(i) ==
            LET ce == ParseScore(OracleAt(oracle, i))
                final == Blend(c.mix_weight, ce, 100 - c.mix_weight, rcs[i].hybrid_score)
                o == Original(candidates, rcs[i])
            IN  [text |-> o.text, score |-> o.score, metadata |-> o.metadata,
                 ce_score |-> ce, final_score |-> final]
    IN  IF candidates = <<>>
        THEN [kind |-> "return", val |-> candidates, exc |-> Null, oracle_calls |-> 0]
        ELSE IF failed # {}
        THEN [kind |-> "raise", val |-> <<>>, exc |-> "OracleError",
              oracle_calls |-> CHOOSE i \in failed : \A j \in failed : i <= j]
        ELSE [kind |-> "return",
              val |-> Prefix(SortByFinal([i \in DOMAIN candidates |-> enrich(i)]), top_k_out),
              exc |-> Null, oracle_calls |-> Len(candidates)]

\* candidates as retrieve returns them: two chunks with the same text, and
\* one whose record has no chunk id
RerankPool ==
    { Passage(Item("c1", <<3, 4>>, Meta("c1", "w1", "a.txt", "d1", <<"y", "x">>)),
              Frac(9, 10), "hybrid"),
      Passage(Item("c1", <<3, 4>>, Meta("c1", "w1", "a.txt", "d1", <<"y", "x">>)),
              Frac(1, 2), "hybrid"),
      Passage(Item("c2", <<3, 4>>, Meta("c2", "w1", "b.txt", "d2", <<"y", "x">>)),
              Frac(1, 2), "hybrid"),
      Passage(Item("", <<0, 10>>, Meta(Null, "w1", "b.txt", "d2", <<"y">>)),
              Frac(9, 10), "hybrid") }
CandidateLists == UNION {[1..n -> RerankPool] : n \in 0..MaxItems}
RerankPlans == OraclePlans \cup {[first |-> "0.2", rest |-> "nan"]}

\* ------------------------------------------------ RAGEngine.answer_question
Unset == 0 - 1          \* a key absent from the rerank configuration
DefaultOut == 5         \* min(5, len(chunks))
NotFound == "Jag hittar inte svaret i kallorna."

\* lines 63-74: one source per distinct document_name|page_number
RECURSIVE Sources(_, _)
Sources(chunks, seen) ==
    IF chunks = <<>> THEN <<>>
    ELSE LET md == Head(chunks).metadata
             key == <<md.document_name, md.page_number>>
         IN  IF key \in seen THEN Sources(Tail(chunks), seen)
             ELSE <<[document_name |-> md.document_name, page_number |-> md.page_number,
                     snippet |-> Head(chunks).text]>>
                  \o Sources(Tail(chunks), seen \cup {key})

\* the record log_query appends; a failure to write it is caught there
LogRecord(success, exc) == [success |-> success, error_type |-> exc]

\* the test on the number of passages left out
RerankStep_AnyLength(c, r, oracle) ==
    LET input_top_k == IF c.input_top_k = Unset THEN Len(r.val) ELSE c.input_top_k
        output_top_k == IF c.output_top_k = Unset THEN Min2(DefaultOut, Len(r.val))
                        ELSE c.output_top_k
    IN  IF r.kind = "return" /\ c.rerank_enabled
        THEN Rerank(c, Prefix(r.val, input_top_k), output_top_k, oracle)
        ELSE [kind |-> "return", val |-> r.val, exc |-> Null, oracle_calls |-> 0]

\* lines 50-57: the optional rerank step on what retrieve returned
RerankStep(c, r, oracle) ==
    LET use_rerank == c.rerank_enabled /\ Len(r.val) > 1
        input_top_k == IF c.input_top_k = Unset THEN Len(r.val) ELSE c.input_top_k
        output_top_k == IF c.output_top_k = Unset THEN Min2(DefaultOut, Len(r.val))
                        ELSE c.output_top_k
    IN  IF r.kind = "return" /\ use_rerank
        THEN Rerank(c, Prefix(r.val, input_top_k), output_top_k, oracle)
        ELSE [kind |-> "return", val |-> r.val, exc |-> Null, oracle_calls |-> 0]

\* lines 59-250: sources, the LLM call, the log record, and the handler that
\* logs and re-raises whatever the try block raised
Answer(r, rr, llm_ok) ==
    LET chunks == rr.val
        failure(exc, llm_calls) ==
            [kind |-> "raise", val |-> [answer |-> Null, sources |-> <<>>], exc |-> exc,
             chunks |-> <<>>, emb_calls |-> r.emb_calls, oracle_calls |-> rr.oracle_calls,
             llm_calls |-> llm_calls, log |-> LogRecord(FALSE, exc)]
    IN  IF r.kind = "raise" THEN failure(r.exc, 0)
        ELSE IF rr.kind = "raise" THEN failure(rr.exc, 0)
        ELSE IF chunks # <<>> /\ ~llm_ok THEN failure("LlmError", 1)
        ELSE [kind |-> "return",
              val |-> [answer |-> IF chunks = <<>> THEN NotFound ELSE "llm-answer",
                       sources |-> Sources(chunks, {})],
              exc |-> Null, chunks |-> chunks, emb_calls |-> r.emb_calls,
              oracle_calls |-> rr.oracle_calls,
              llm_calls |-> IF chunks = <<>> THEN 0 ELSE 1,
              log |-> LogRecord(TRUE, Null)]

\* ------------------------------------------------------------ index_store
FileNames == {"embeddings.npy", "chunks_meta.json", "bm25.pkl"}

\* Path(base_dir) / workspace
get_workspace_dir(workspace) == workspace
embeddings_path(workspace) == <<get_workspace_dir(workspace), "embeddings.npy">>
\* the workspace argument not passed on
meta_path_Default(workspace) == <<get_workspace_dir("w1"), "chunks_meta.json">>
meta_path(workspace) == <<get_workspace_dir(workspace), "chunks_meta.json">>
bm25_path(workspace) == <<get_workspace_dir(workspace), "bm25.pkl">>

\* a file is absent, opened for writing and not yet written ("partial"), or
\* written
Absent == [state |-> "absent", data |-> <<>>]
Partial == [state |-> "partial", data |-> <<>>]
Written(data) == [state |-> "ok", data |-> data]
AllPaths == Workspaces \X FileNames
EmptyDisk == [p \in AllPaths |-> Absent]
Exists(d, path) == d[path].state # "absent"

\* np.save / np.load: the shape and the row-major data of the matrix
RECURSIVE Flatten(_)
Flatten(rows) == IF rows = <<>> THEN <<>> ELSE Head(rows) \o Flatten(Tail(rows))
NpySave(rows) == [shape |-> <<Len(rows), Len(rows[1])>>, data |-> Flatten(rows)]
NpyLoad(f) ==
    [i \in 1..f.shape[1] |-> SubSeq(f.data, (i - 1) * f.shape[2] + 1, i * f.shape[2])]

\* json.dump / json.load of one chunk record: a JSON object is the list of
\* its members in key order; parsing keeps the last member of each key
MetaKeys ==
    <<"chunk_id", "document_name", "document_id", "document_path", "document_mtime",
      "page_number", "workspace_id", "text">>
JsonObject(rec) ==
    LET keys == KeepAt(MetaKeys, {i \in DOMAIN MetaKeys : MetaKeys[i] \in DOMAIN rec})
    IN  [i \in DOMAIN keys |-> <<keys[i], rec[keys[i]]>>]
\* the value json.load gives a member name: that of its last occurrence
JsonMember(obj, k) ==
    obj[CHOOSE i \in DOMAIN obj :
            /\ obj[i][1] = k
            /\ \A j \in DOMAIN obj : obj[j][1] = k => j <= i][2]
\* the dict of a chunk record, with or without the member document_id
JsonParseObject(obj) ==
    IF \E i \in DOMAIN obj : obj[i][1] = "document_id"
    THEN [chunk_id |-> JsonMember(obj, "chunk_id"),
          document_name |-> JsonMember(obj, "document_name"),
          document_id |-> JsonMember(obj, "document_id"),
          document_path |-> JsonMember(obj, "document_path"),
          document_mtime |-> JsonMember(obj, "document_mtime"),
          page_number |-> JsonMember(obj, "page_number"),
          workspace_id |-> JsonMember(obj, "workspace_id"),
          text |-> JsonMember(obj, "text")]
    ELSE [chunk_id |-> JsonMember(obj, "chunk_id"),
          document_name |-> JsonMember(obj, "document_name"),
          document_path |-> JsonMember(obj, "document_path"),
          document_mtime |-> JsonMember(obj, "document_mtime"),
          page_number |-> JsonMember(obj, "page_number"),
          workspace_id |-> JsonMember(obj, "workspace_id"),
          text |-> JsonMember(obj, "text")]

Now == 1700000000       \* time.time() at line 43
NowIso == "2023-11-14 22:13:20"
JsonDumpMeta(chunks_meta) ==
    [type |-> "object",
     chunks_meta |-> [i \in DOMAIN chunks_meta |-> JsonObject(chunks_meta[i])],
     indexed_at |-> Now, indexed_at_iso |-> NowIso]

\* pickle.dump / pickle.load
PickleDump(obj) == <<"rank_bm25.BM25Okapi", obj>>
PickleLoad(f) == f[2]

\* BM25Okapi(tokenized_texts): the state the object keeps of its corpus
BM25Okapi(corpus) ==
    [corpus_size |-> Len(corpus),
     doc_len |-> [i \in DOMAIN corpus |-> Len(corpus[i])],
     doc_freqs |-> [i \in DOMAIN corpus |->
                       {<<w, TermFreq(w, corpus[i])>> : w \in Range(corpus[i])}]]

\* one write: open(path, "w") truncates, the dump fills the file; steps is
\* how many of the two the call got through
WriteFile(d, path, data, steps) ==
    IF steps <= 0 THEN d
    ELSE IF steps = 1 THEN [d EXCEPT ![path] = Partial]
    ELSE [d EXCEPT ![path] = Written(data)]

\* save_index: three writes in a row.  cut is the number of write steps done
\* when the call ends: 6 when it returns, fewer when the process is stopped
\* or a dump raises on the way (a reader that looks at the directory while
\* a save is under way sees the same files)
SaveSteps == 6
SaveIndexDisk(d, workspace, embeddings, chunks_meta, bm25_obj, cut) ==
    LET d1 == WriteFile(d, embeddings_path(workspace), NpySave(embeddings), cut)
        d2 == WriteFile(d1, meta_path(workspace), JsonDumpMeta(chunks_meta), cut - 2)
    IN  WriteFile(d2, bm25_path(workspace), PickleDump(bm25_obj), cut - 4)

NoCache == [found |-> FALSE]

\* the exists test of line 66 asks for one file only
LoadIndex_OneExists(d, workspace) ==
    LET e == d[embeddings_path(workspace)]
        m == d[meta_path(workspace)]
        b == d[bm25_path(workspace)]
    IN  IF ~Exists(d, embeddings_path(workspace))
        THEN [kind |-> "return", val |-> NoCache, exc |-> Null]
        ELSE IF e.state # "ok" \/ m.state # "ok" \/ b.state # "ok"
        THEN [kind |-> "raise", val |-> NoCache, exc |-> "ReadError"]
        ELSE [kind |-> "return", exc |-> Null,
              val |-> [found |-> TRUE, embeddings |-> NpyLoad(e.data),
                       chunks_meta |-> [i \in DOMAIN m.data.chunks_meta |->
                                           JsonParseObject(m.data.chunks_meta[i])],
                       bm25 |-> PickleLoad(b.data),
                       indexed_at |-> m.data.indexed_at,
                       indexed_at_iso |-> m.data.indexed_at_iso, index_source |-> "cached"]]

\* load_index: None unless the three files exist; a file that exists but was
\* not written to its end makes np.load, json.load or pickle.load raise
LoadIndex(d, workspace) ==
    LET e == d[embeddings_path(workspace)]
        m == d[meta_path(workspace)]
        b == d[bm25_path(workspace)]
        chunks_meta ==
            IF m.data.type = "array"
            THEN [i \in DOMAIN m.data.elems |-> JsonParseObject(m.data.elems[i])]
            ELSE [i \in DOMAIN m.data.chunks_meta |-> JsonParseObject(m.data.chunks_meta[i])]
    IN  IF ~(/\ Exists(d, embeddings_path(workspace))
             /\ Exists(d, meta_path(workspace))
             /\ Exists(d, bm25_path(workspace)))
        THEN [kind |-> "return", val |-> NoCache, exc |-> Null]
        ELSE IF e.state # "ok" \/ m.state # "ok" \/ b.state # "ok"
        THEN [kind |-> "raise", val |-> NoCache, exc |-> "ReadError"]
        ELSE IF m.data.type = "array"
        THEN [kind |-> "return", exc |-> Null,
              val |-> [found |-> TRUE, embeddings |-> NpyLoad(e.data),
                       chunks_meta |-> chunks_meta, bm25 |-> PickleLoad(b.data)]]
        ELSE [kind |-> "return", exc |-> Null,
              val |-> [found |-> TRUE, embeddings |-> NpyLoad(e.data),
                       chunks_meta |-> chunks_meta, bm25 |-> PickleLoad(b.data),
                       indexed_at |-> m.data.indexed_at,
                       indexed_at_iso |-> m.data.indexed_at_iso, index_source |-> "cached"]]

\* lines 126-131: path -> mtime of the chunk records, the last record of a
\* path wins
CachedDocs(chunks_meta) ==
    LET withPath == {i \in DOMAIN chunks_meta : Truthy(chunks_meta[i].document_path)}
    IN  [p \in {chunks_meta[i].document_path : i \in withPath} |->
            chunks_meta[CHOOSE i \in withPath :
                            /\ chunks_meta[i].document_path = p
                            /\ \A j \in withPath :
                                  chunks_meta[j].document_path = p => j <= i].document_mtime]

\* the comparison of the modification times left out
NeedsRebuild_NoMtime(d, workspace, current_docs) ==
    LET cache == LoadIndex(d, workspace)
        cached_docs == CachedDocs(cache.val.chunks_meta)
    IN  IF cache.kind = "raise" THEN [kind |-> "raise", val |-> FALSE, exc |-> cache.exc]
        ELSE IF ~cache.val.found THEN [kind |-> "return", val |-> TRUE, exc |-> Null]
        ELSE [kind |-> "return", exc |-> Null,
              val |-> \E i \in DOMAIN current_docs :
                          current_docs[i].path \notin DOMAIN cached_docs]

NeedsRebuild(d, workspace, current_docs) ==
    LET cache == LoadIndex(d, workspace)
        cached_docs == CachedDocs(cache.val.chunks_meta)
    IN  IF cache.kind = "raise" THEN [kind |-> "raise", val |-> FALSE, exc |-> cache.exc]
        ELSE IF ~cache.val.found THEN [kind |-> "return", val |-> TRUE, exc |-> Null]
        ELSE [kind |-> "return", exc |-> Null,
              val |-> \E i \in DOMAIN current_docs :
                          \/ current_docs[i].path \notin DOMAIN cached_docs
                          \/ cached_docs[current_docs[i].path] # current_docs[i].mtime]

\* ---------------------------------------------- what the CLI rebuild saves
Doc(path, mtime) == [path |-> path, name |-> path, mtime |-> mtime]
DocPaths == {"a.txt", "b.txt"}
Mtimes == {"100", "200"}                \* str(int(os.path.getmtime(path)))
DocText(path) == IF path = "a.txt" THEN <<"y", "x">> ELSE <<"Y", "y">>
EmbedText(text) == IF text = <<"y", "x">> THEN <<3, 4>> ELSE <<0, 10>>
DocIdOf(path) == IF path = "a.txt" THEN "d1" ELSE "d2"      \* sha1 of the absolute path
ChunkIdNo(n) == <<"doc-1", "doc-2", "doc-3", "doc-4">>[n]

\* document lists with pairwise different paths, as os.walk yields them
DocLists ==
    {docs \in UNION {[1..n -> {Doc(p, t) : p \in DocPaths, t \in Mtimes}] : n \in 0..MaxDocs} :
        \A i, j \in DOMAIN docs : i # j => docs[i].path # docs[j].path}

\* chat_cli.py 88-144: one chunk per document, its embedding, the BM25 model
BuildSnapshot(workspace, docs) ==
    LET chunk_metas ==
            [i \in DOMAIN docs |->
                [chunk_id |-> ChunkIdNo(i), document_name |-> docs[i].name,
                 document_id |-> DocIdOf(docs[i].path), document_path |-> docs[i].path,
                 document_mtime |-> docs[i].mtime, page_number |-> 1,
                 workspace_id |-> workspace, text |-> DocText(docs[i].path)]]
        all_texts == [i \in DOMAIN docs |-> DocText(docs[i].path)]
    IN  [embeddings |-> [i \in DOMAIN docs |-> EmbedText(all_texts[i])],
         chunks_meta |-> chunk_metas,
         bm25 |-> BM25Okapi(all_texts)]

SavedDocLists ==
    { <<Doc("a.txt", "100")>>, <<Doc("a.txt", "200")>>,
      <<Doc("a.txt", "100"), Doc("b.txt", "100")>> }
Cuts == {2, 3, 4, SaveSteps}

NoSnapshot == [embeddings |-> <<>>, chunks_meta |-> <<>>, bm25 |-> BM25Okapi(<<>>)]
NoHist == [w \in Workspaces |-> [complete |-> FALSE, args |-> NoSnapshot, saves |-> 0]]

\* ------------------------------------------------------------ chunk_text
\* a text is a sequence of characters, a word a non-empty sequence of
\* characters other than the blank
\* str.split(): the maximal runs of non-blank characters
RECURSIVE SplitAcc(_, _, _)
SplitAcc(text, cur, out) ==
    IF text = <<>> THEN (IF cur = <<>> THEN out ELSE Append(out, cur))
    ELSE IF Head(text) = " "
         THEN SplitAcc(Tail(text), <<>>, IF cur = <<>> THEN out ELSE Append(out, cur))
         ELSE SplitAcc(Tail(text), Append(cur, Head(text)), out)
Split(text) == SplitAcc(text, <<>>, <<>>)

\* " ".join(segment)
RECURSIVE Join(_)
Join(segment) ==
    IF segment = <<>> THEN <<>>
    ELSE IF Len(segment) = 1 THEN segment[1]
    ELSE segment[1] \o <<" ">> \o Join(Tail(segment))

\* words[a + 1 : b]: the window without its first word
Slice_OffByOne(words, a, b) == SubSeq(words, a + 2, Min2(b, Len(words)))
\* words[a : b] for 0 <= a
Slice(words, a, b) == SubSeq(words, a + 1, Min2(b, Len(words)))

\* max(1, ...) left out
Step_NoFloor(target_tokens, overlap_tokens) == target_tokens - overlap_tokens
Step(target_tokens, overlap_tokens) ==
    IF target_tokens - overlap_tokens < 1 THEN 1 ELSE target_tokens - overlap_tokens

\* lines 11-19: the locals before the loop; done when the function is at its
\* return statement
ChunkInit(text, target_tokens, overlap_tokens) ==
    [words |-> Split(text), target_tokens |-> target_tokens,
     step |-> Step(target_tokens, overlap_tokens), i |-> 0, chunk_index |-> 0,
     chunks |-> <<>>, done |-> Split(text) = <<>>]

\* is_last computed from the chunk's end only when the step was a full window
ChunkBody_LastByStep(st) ==
    LET total_words == Len(st.words)
        chunk == [chunk_index |-> st.chunk_index + 1, is_first |-> st.i = 0,
                  is_last |-> st.i + st.step >= total_words,
                  text |-> Join(Slice(st.words, st.i, st.i + st.target_tokens))]
    IN  IF ~(st.i < total_words) THEN [st EXCEPT !.done = TRUE]
        ELSE IF st.i + st.target_tokens >= total_words
        THEN [st EXCEPT !.chunk_index = @ + 1, !.chunks = Append(@, chunk), !.done = TRUE]
        ELSE [st EXCEPT !.chunk_index = @ + 1, !.chunks = Append(@, chunk),
                        !.i = @ + st.step]

\* lines 21-35: the loop test and one pass through the loop body
ChunkBody(st) ==
    LET total_words == Len(st.words)
        chunk == [chunk_index |-> st.chunk_index + 1, is_first |-> st.i = 0,
                  is_last |-> st.i + st.target_tokens >= total_words,
                  text |-> Join(Slice(st.words, st.i, st.i + st.target_tokens))]
    IN  IF ~(st.i < total_words) THEN [st EXCEPT !.done = TRUE]
        ELSE IF st.i + st.target_tokens >= total_words
        THEN [st EXCEPT !.chunk_index = @ + 1, !.chunks = Append(@, chunk), !.done = TRUE]
        ELSE [st EXCEPT !.chunk_index = @ + 1, !.chunks = Append(@, chunk),
                        !.i = @ + st.step]

RECURSIVE ChunkRun(_)
ChunkRun(st) == IF st.done THEN st.chunks ELSE ChunkRun(ChunkBody(st))
chunk_text(text, target_tokens, overlap_tokens) ==
    ChunkRun(ChunkInit(text, target_tokens, overlap_tokens))

Chars == {"a", " "}
Texts == UNION {[1..n -> Chars] : n \in 0..MaxText}

\* ------------------------------------- the operations that write snapshots
\* the files of a documents directory: their text, by path
FileChars(path) ==
    IF path = "a.txt" THEN <<"a", " ", "a", "a", " ", "a">>
    ELSE IF path = "b.txt" THEN <<"a", "a">>
    ELSE <<" ">>
FilePaths == {"a.txt", "b.txt", "e.txt"}
\* chunking.target_tokens and chunking.overlap_tokens of the configuration
ChunkCfg == [target_tokens |-> 2, overlap_tokens |-> 1]
\* what the embedding provider returns for a text
EmbedChars(text) == <<3 * Len(Split(text)), 4 * Len(Split(text))>>
FileLists ==
    {docs \in UNION {[1..n -> {Doc(p, t) : p \in FilePaths, t \in Mtimes}] : n \in 0..MaxDocs} :
        \A i, j \in DOMAIN docs : i # j => docs[i].path # docs[j].path}

\* f"chunk-{n}" and f"{doc_id}-chunk-{i}"
ScriptChunkId(n) == <<"chunk-1", "chunk-2", "chunk-3", "chunk-4", "chunk-5", "chunk-6">>[n]
UploadDocId(workspace, filename) ==
    IF workspace = "w1"
    THEN (IF filename = "a.txt" THEN "sha1(w1:a.txt)" ELSE "sha1(w1:b.txt)")
    ELSE (IF filename = "a.txt" THEN "sha1(w2:a.txt)" ELSE "sha1(w2:b.txt)")
UploadChunkId(doc_id, i) ==
    IF doc_id = "sha1(w1:a.txt)"
    THEN <<"sha1(w1:a.txt)-chunk-1", "sha1(w1:a.txt)-chunk-2", "sha1(w1:a.txt)-chunk-3">>[i]
    ELSE IF doc_id = "sha1(w1:b.txt)"
    THEN <<"sha1(w1:b.txt)-chunk-1", "sha1(w1:b.txt)-chunk-2", "sha1(w1:b.txt)-chunk-3">>[i]
    ELSE IF doc_id = "sha1(w2:a.txt)"
    THEN <<"sha1(w2:a.txt)-chunk-1", "sha1(w2:a.txt)-chunk-2", "sha1(w2:a.txt)-chunk-3">>[i]
    ELSE <<"sha1(w2:b.txt)-chunk-1", "sha1(w2:b.txt)-chunk-2", "sha1(w2:b.txt)-chunk-3">>[i]

\* the snapshot save_index is given: the rows, their records, the BM25 model
\* of the records' texts
SnapshotOf(chunk_metas, embeddings) ==
    [embeddings |-> embeddings, chunks_meta |-> chunk_metas,
     bm25 |-> BM25Okapi([i \in DOMAIN chunk_metas |-> Split(chunk_metas[i].text)])]

\* chat_cli.py 88-110: the records of the chunks of the documents, in order
RECURSIVE CliChunkMetas(_, _, _)
CliChunkMetas(workspace, docs, chunk_metas) ==
    IF docs = <<>> THEN chunk_metas
    ELSE LET doc == Head(docs)
             chunks == chunk_text(FileChars(doc.path), ChunkCfg.target_tokens,
                                  ChunkCfg.overlap_tokens)
             new == [k \in DOMAIN chunks |->
                        [chunk_id |-> ChunkIdNo(Len(chunk_metas) + k),
                         document_name |-> doc.name, document_id |-> DocIdOf(doc.path),
                         document_path |-> doc.path, document_mtime |-> doc.mtime,
                         page_number |-> 1, workspace_id |-> workspace,
                         text |-> chunks[k].text]]
         IN  CliChunkMetas(workspace, Tail(docs), chunk_metas \o new)

\* index_workspace.py 112-163: documents without text are skipped
RECURSIVE ScriptChunks(_, _, _)
ScriptChunks(workspace, docs, all_chunks) ==
    IF docs = <<>> THEN all_chunks
    ELSE LET doc == Head(docs)
             chunks == chunk_text(FileChars(doc.path), ChunkCfg.target_tokens,
                                  ChunkCfg.overlap_tokens)
             new == [k \in DOMAIN chunks |->
                        [chunk_id |-> ScriptChunkId(Len(all_chunks) + k),
                         document_name |-> doc.name, document_path |-> doc.path,
                         document_mtime |-> doc.mtime, text |-> chunks[k].text,
                         page_number |-> 1, workspace_id |-> workspace]]
         IN  ScriptChunks(workspace, Tail(docs), all_chunks \o new)

\* main.py 732-749: the records of the chunks of one uploaded file; the path
\* is the temporary file's
TempFile == "/tmp/upload.txt"
UploadChunkMetas(workspace, file) ==
    LET chunks == chunk_text(FileChars(file.name), ChunkCfg.target_tokens,
                             ChunkCfg.overlap_tokens)
    IN  [k \in DOMAIN chunks |->
            [chunk_id |-> UploadChunkId(UploadDocId(workspace, file.name), k),
             document_name |-> file.name, document_path |-> TempFile,
             document_mtime |-> file.mtime, text |-> chunks[k].text,
             page_number |-> 1, workspace_id |-> workspace]]

EmbedAll(chunk_metas) == [i \in DOMAIN chunk_metas |-> EmbedChars(chunk_metas[i].text)]

\* chat_cli.py 62-144: what the run decides and, if it rebuilds, the snapshot
\* it builds; nothing is saved when the documents yield no chunk
CliIndexResult(d, workspace, docs) ==
    LET nr == NeedsRebuild(d, workspace, docs)
        chunk_metas == CliChunkMetas(workspace, docs, <<>>)
    IN  IF nr.kind = "raise"
        THEN [kind |-> "raise", exc |-> nr.exc, rebuilt |-> FALSE, saved |-> FALSE,
              built |-> NoSnapshot, snap |-> NoSnapshot]
        ELSE IF nr.val /\ chunk_metas # <<>>
        THEN [kind |-> "return", exc |-> Null, rebuilt |-> TRUE, saved |-> TRUE,
              built |-> SnapshotOf(chunk_metas, EmbedAll(chunk_metas)),
              snap |-> SnapshotOf(chunk_metas, EmbedAll(chunk_metas))]
        ELSE [kind |-> "return", exc |-> Null, rebuilt |-> nr.val, saved |-> FALSE,
              built |-> NoSnapshot, snap |-> NoSnapshot]

\* index_workspace.py 97-233: exit status 1 without documents or without
\* text, else the snapshot of the documents that have text
IndexScriptResult(workspace, docs) ==
    LET extracted_docs == KeepAt(docs, {i \in DOMAIN docs : Split(FileChars(docs[i].path)) # <<>>})
        all_chunks == ScriptChunks(workspace, extracted_docs, <<>>)
    IN  IF docs = <<>> \/ extracted_docs = <<>>
        THEN [kind |-> "return", exc |-> Null, status |-> 1, saved |-> FALSE,
              built |-> NoSnapshot, snap |-> NoSnapshot]
        ELSE [kind |-> "return", exc |-> Null, status |-> 0, saved |-> TRUE,
              built |-> SnapshotOf(all_chunks, EmbedAll(all_chunks)),
              snap |-> SnapshotOf(all_chunks, EmbedAll(all_chunks))]

\* the new rows stacked above the rows of the snapshot
StackRows_NewFirst(existing_embeddings, new_embeddings) ==
    new_embeddings \o existing_embeddings

\* np.vstack([existing_embeddings, new_embeddings_array]), or the new rows
\* alone when the snapshot has none
StackRows(existing_embeddings, new_embeddings) ==
    IF Len(existing_embeddings) > 0 THEN existing_embeddings \o new_embeddings
    ELSE new_embeddings

\* main.py 689-793: built is what the uploaded file yields, snap what
\* save_index is given
UploadResult(d, workspace, file) ==
    LET all_chunks_meta == UploadChunkMetas(workspace, file)
        existing_cache == LoadIndex(d, workspace)
        existing_chunks_meta ==
            IF existing_cache.val.found THEN existing_cache.val.chunks_meta ELSE <<>>
        existing_embeddings ==
            IF existing_cache.val.found THEN existing_cache.val.embeddings ELSE <<>>
        all_chunks_meta_combined == existing_chunks_meta \o all_chunks_meta
        all_embeddings == StackRows(existing_embeddings, EmbedAll(all_chunks_meta))
    IN  IF Split(FileChars(file.name)) = <<>>
        THEN [kind |-> "raise", exc |-> "HTTP400", saved |-> FALSE,
              built |-> NoSnapshot, snap |-> NoSnapshot]
        ELSE IF existing_cache.kind = "raise"
        THEN [kind |-> "raise", exc |-> "HTTP500", saved |-> FALSE,
              built |-> NoSnapshot, snap |-> NoSnapshot]
        ELSE [kind |-> "return", exc |-> Null, saved |-> TRUE,
              built |-> SnapshotOf(all_chunks_meta, EmbedAll(all_chunks_meta)),
              snap |-> [embeddings |-> all_embeddings,
                        chunks_meta |-> all_chunks_meta_combined,
                        bm25 |-> BM25Okapi([i \in DOMAIN all_chunks_meta_combined |->
                                               Split(all_chunks_meta_combined[i].text)])]]

UploadFiles == {[name |-> n, mtime |-> t] : n \in FilePaths, t \in {"300"}}

\* ------------------------------------------------------- the API process
\* _engines maps a workspace to an engine (0: no entry); heap holds the
\* engines built so far, each with the index it owns and the snapshot it was
\* built from; reqs are the requests in arrival order, each with the position
\* (pc) of its handler and the handler's locals; running is the handler that
\* holds the event loop (0: none); uploaded are the files whose upload returned
NoApi ==
    [engines |-> [w \in Workspaces |-> 0], heap |-> <<>>, reqs |-> <<>>, running |-> 0,
     uploaded |-> {}]

\* the positions a handler gives up the event loop before: the handlers are
\* coroutines whose only await is file.read() in upload_document (line 677)
\* every position, as for handlers run by threads
AwaitBefore_Threads ==
    {"check", "load", "create", "add", "publish", "answer", "index", "invalidate"}
AwaitBefore == {"index"}

\* _load_engine_for_workspace after a miss: the index is created (243, 257),
\* filled (258-267), and the engine put into _engines (247, 272)
\* the engine put into _engines before its index is filled
BuildOrder_PublishFirst == <<"create", "publish", "add", "answer">>
BuildOrder == <<"create", "add", "publish", "answer">>

\* lines 796-797 left out
Invalidate_Keep(engines, workspace) == engines
Invalidate(engines, workspace) == [engines EXCEPT ![workspace] = 0]

\* main.py 258-266: one item per chunk record, with the vector row of the
\* same position
\* the engine without snapshot handed out but not kept
Publish_OnlyLoaded(engines, workspace, engine, cache) ==
    IF cache.found THEN [engines EXCEPT ![workspace] = engine] ELSE engines

\* _engines[workspace] = engine, for the empty engine (247) as for the
\* engine built from a snapshot (272)
Publish(engines, workspace, engine, cache) == [engines EXCEPT ![workspace] = engine]

ItemsOfCache(cache) ==
    IF cache.found
    THEN [i \in DOMAIN cache.chunks_meta |->
             Item(cache.chunks_meta[i].chunk_id, cache.embeddings[i], cache.chunks_meta[i])]
    ELSE <<>>

\* ----------------------------------------------------------------- state
Idle == [op |-> "none"]

RetrievalConfigs ==
    {c \in [mode : Modes, top_k : 1..MaxTopK, alpha : {35, 50}, beta : {65, 100},
            rerank_enabled : {FALSE}, mix_weight : {70},
            input_top_k : {Unset}, output_top_k : {Unset}] :
        /\ [alpha |-> c.alpha, beta |-> c.beta] \in Weights
        /\ c.mode # "hybrid" => c.alpha = 35}

EngineConfigs ==
    {c \in [mode : {"hybrid", "embeddings"}, top_k : {MaxTopK}, alpha : {35}, beta : {65},
            rerank_enabled : BOOLEAN, mix_weight : {70},
            input_top_k : {Unset}, output_top_k : {Unset, 1}] :
        ~c.rerank_enabled => c.output_top_k = Unset}

\* ---------------------------------------------------------------- actions
\* the caller has taken the result of the last call; the next call can start
Return ==
    /\ ret.op # "none"
    /\ ret' = Idle
    /\ UNCHANGED <<items, cfg, disk, hist, api>>

Add(new) ==
    /\ ret.op = "none"
    /\ Len(AddAll(items, new)) <= MaxItems
    /\ items' = AddAll(items, new)
    /\ ret' = [op |-> "add", args |-> new]
    /\ UNCHANGED <<cfg, disk, hist, api>>

\* an InMemoryIndex used on its own; hist keeps, per id, the item of the
\* latest add call that no delete or clear has followed (<<>>: none)
PoolIds == {it.id : it \in ItemPool}
NoAdds == [id \in PoolIds |-> <<>>]
AddLists == UNION {[1..n -> ItemPool] : n \in 1..2}
DeleteLists == { <<>>, <<"c1">>, <<"c2", "c1">>, <<"c9">> }

LastAdded(h, new) ==
    [id \in PoolIds |->
        IF \E i \in DOMAIN new : new[i].id = id
        THEN <<new[CHOOSE i \in DOMAIN new :
                     new[i].id = id /\ \A j \in DOMAIN new : new[j].id = id => j <= i]>>
        ELSE h[id]]

IndexAdd(new) ==
    /\ ret.op = "none"
    /\ Len(AddAll(items, new)) <= MaxItems
    /\ items' = AddAll(items, new)
    /\ hist' = LastAdded(hist, new)
    /\ ret' = [op |-> "add", args |-> new, kind |-> "return"]
    /\ UNCHANGED <<cfg, disk, api>>

IndexDelete(ids) ==
    /\ ret.op = "none"
    /\ items' = DeleteAll(items, ids)
    /\ hist' = [id \in PoolIds |-> IF id \in Range(ids) THEN <<>> ELSE hist[id]]
    /\ ret' = [op |-> "delete", args |-> ids, kind |-> "return"]
    /\ UNCHANGED <<cfg, disk, api>>

IndexClear ==
    /\ ret.op = "none"
    /\ items' = ClearAll(items)
    /\ hist' = NoAdds
    /\ ret' = [op |-> "clear", kind |-> "return"]
    /\ UNCHANGED <<cfg, disk, api>>

IndexQuery(embedding, top_k, flt) ==
    /\ ret.op = "none"
    /\ \E r \in {Query(items, embedding, top_k, flt)} :
          ret' = [op |-> "query",
                  args |-> [embedding |-> embedding, top_k |-> top_k, filter |-> flt],
                  kind |-> r.kind, val |-> r.val, exc |-> r.exc]
    /\ UNCHANGED <<items, cfg, disk, hist, api>>

DoRetrieve(question, workspace_id, document_ids, emb) ==
    /\ ret.op = "none"
    /\ \E r \in {Retrieve(items, cfg, question, workspace_id, document_ids, emb)} :
          ret' = [op |-> "retrieve",
                  args |-> [question |-> question, workspace_id |-> workspace_id,
                            document_ids |-> document_ids, emb |-> emb],
                  kind |-> r.kind, val |-> r.val, exc |-> r.exc, emb_calls |-> r.emb_calls,
                  emb_texts |-> r.emb_texts,
                  pool |-> r.pool]
    /\ UNCHANGED <<items, cfg, disk, hist, api>>

AnswerQuestion(question, workspace_id, document_ids, emb, oracle, llm_ok) ==
    /\ ret.op = "none"
    /\ \E r \in {Retrieve(items, cfg, question, workspace_id, document_ids, emb)} :
       \E rr \in {RerankStep(cfg, r, oracle)} :
       \E a \in {Answer(r, rr, llm_ok)} :
          ret' = [op |-> "answer_question",
                  args |-> [question |-> question, workspace_id |-> workspace_id,
                            document_ids |-> document_ids, emb |-> emb,
                            oracle |-> oracle, llm_ok |-> llm_ok],
                  kind |-> a.kind, val |-> a.val, exc |-> a.exc, chunks |-> a.chunks,
                  emb_calls |-> a.emb_calls, oracle_calls |-> a.oracle_calls,
                  llm_calls |-> a.llm_calls, log |-> a.log]
    /\ UNCHANGED <<items, cfg, disk, hist, api>>

\* CrossEncoderReranker.rerank called on its own
DoRerank(candidates, top_k_out, oracle) ==
    /\ ret.op = "none"
    /\ \E r \in {Rerank(cfg, candidates, top_k_out, oracle)} :
          ret' = [op |-> "rerank",
                  args |-> [candidates |-> candidates, top_k_out |-> top_k_out,
                            oracle |-> oracle],
                  kind |-> r.kind, val |-> r.val, exc |-> r.exc,
                  oracle_calls |-> r.oracle_calls]
    /\ UNCHANGED <<items, cfg, disk, hist, api>>

\* save_index called on the snapshot built from docs, stopped after cut writes
SaveIndex(workspace, docs, cut) ==
    /\ ret.op = "none"
    /\ \E snap \in {BuildSnapshot(workspace, docs)} :
          /\ disk' = SaveIndexDisk(disk, workspace, snap.embeddings, snap.chunks_meta,
                                   snap.bm25, cut)
          /\ hist' = [hist EXCEPT ![workspace] =
                         [complete |-> cut = SaveSteps,
                          args |-> IF cut = SaveSteps THEN snap ELSE NoSnapshot,
                          saves |-> Min2(2, hist[workspace].saves + 1)]]
    /\ ret' = [op |-> "save_index", args |-> [workspace |-> workspace],
               kind |-> IF cut = SaveSteps THEN "return" ELSE "interrupted"]
    /\ UNCHANGED <<items, cfg, api>>

DoLoadIndex(workspace) ==
    /\ ret.op = "none"
    /\ \E r \in {LoadIndex(disk, workspace)} :
          ret' = [op |-> "load_index", args |-> [workspace |-> workspace],
                  kind |-> r.kind, val |-> r.val, exc |-> r.exc]
    /\ UNCHANGED <<items, cfg, disk, hist, api>>

DoNeedsRebuild(workspace, current_docs) ==
    /\ ret.op = "none"
    /\ \E r \in {NeedsRebuild(disk, workspace, current_docs)} :
          ret' = [op |-> "needs_rebuild",
                  args |-> [workspace |-> workspace, current_docs |-> current_docs],
                  kind |-> r.kind, val |-> r.val, exc |-> r.exc]
    /\ UNCHANGED <<items, cfg, disk, hist, api>>

\* the stand-alone call of norm on a list of raw scores
ScoreLists ==
    UNION {[1..n -> (0 - 1)..MaxScore] : n \in 1..MaxLen}

DoNorm(s) ==
    /\ ret.op = "none"
    /\ ret' = [op |-> "norm", args |-> s, val |-> norm(s)]
    /\ UNCHANGED <<items, cfg, disk, hist, api>>

\* a save_index call that runs to its end
Saved(workspace, snap) ==
    /\ disk' = SaveIndexDisk(disk, workspace, snap.embeddings, snap.chunks_meta, snap.bm25,
                              SaveSteps)
    /\ hist' = [hist EXCEPT ![workspace] =
                   [complete |-> TRUE, args |-> snap,
                    saves |-> Min2(2, hist[workspace].saves + 1)]]

\* the result r of a snapshot-writing operation takes effect
Effect(op, workspace, input, r) ==
    /\ ret' = [op |-> op, args |-> [workspace |-> workspace, input |-> input],
               kind |-> r.kind, exc |-> r.exc, saved |-> r.saved, built |-> r.built,
               snap |-> r.snap, before |-> LoadIndex(disk, workspace)]
    /\ IF r.saved THEN Saved(workspace, r.snap) ELSE UNCHANGED <<disk, hist>>
    /\ UNCHANGED <<items, cfg, api>>

CliIndex(workspace, docs) ==
    /\ ret.op = "none"
    /\ \E r \in {CliIndexResult(disk, workspace, docs)} :
          Effect("cli_index", workspace, docs, r)

IndexScript(workspace, docs) ==
    /\ ret.op = "none"
    /\ \E r \in {IndexScriptResult(workspace, docs)} :
          Effect("index_workspace", workspace, docs, r)

Upload(workspace, file) ==
    /\ ret.op = "none"
    /\ \E r \in {UploadResult(disk, workspace, file)} :
          /\ Len(r.snap.chunks_meta) <= MaxRows
          /\ Effect("upload", workspace, file, r)

\* a query request carries no file
NoFile == [name |-> "", mtime |-> ""]

\* a request reaches the API process
Arrive(kind, workspace, file) ==
    /\ Len(api.reqs) < MaxReqs
    /\ api' = [api EXCEPT !.reqs =
                  Append(@, [kind |-> kind, pc |-> IF kind = "query" THEN "check" ELSE "receive",
                             workspace |-> workspace, file |-> file, cache |-> NoCache,
                             engine |-> 0, after |-> api.uploaded, seen |-> <<>>,
                             status |-> 0])]
    /\ UNCHANGED <<items, cfg, disk, hist, ret>>

\* the handler r goes on to pc with its request record changed to rec; it
\* keeps the event loop unless it is done or awaits before pc
Proceed(a, r, rec, pc) ==
    [a EXCEPT !.reqs[r] = [rec EXCEPT !.pc = pc],
              !.running = IF pc = "done" \/ pc \in AwaitBefore THEN 0 ELSE r]

\* one step of the /query handler r: main.py 568 with
\* _load_engine_for_workspace (224-276), then answer_question (587)
QueryStep(r) ==
    LET q == api.reqs[r]
        next(pc) == BuildOrder[(CHOOSE i \in DOMAIN BuildOrder : BuildOrder[i] = pc) + 1]
    IN  /\ q.kind = "query" /\ q.pc # "done" /\ api.running \in {0, r}
        /\ \/ /\ q.pc = "check"
              /\ api' = IF api.engines[q.workspace] # 0
                        THEN Proceed(api, r, [q EXCEPT !.engine = api.engines[q.workspace]],
                                     "answer")
                        ELSE Proceed(api, r, q, "load")
           \/ /\ q.pc = "load"
              /\ \E c \in {LoadIndex(disk, q.workspace)} :
                    api' = IF c.kind = "raise"
                           THEN Proceed(api, r, [q EXCEPT !.status = 500], "done")
                           ELSE Proceed(api, r, [q EXCEPT !.cache = c.val], BuildOrder[1])
           \/ /\ q.pc = "create"
              /\ api' = Proceed([api EXCEPT !.heap = Append(@, [index |-> <<>>, from |-> q.cache])],
                                r, [q EXCEPT !.engine = Len(api.heap) + 1], next("create"))
           \/ /\ q.pc = "add"
              /\ api' = Proceed([api EXCEPT !.heap[q.engine].index =
                                                AddAll(@, ItemsOfCache(q.cache))],
                                r, q, next("add"))
           \/ /\ q.pc = "publish"
              /\ api' = Proceed([api EXCEPT !.engines = Publish(@, q.workspace, q.engine, q.cache)],
                                r, q, next("publish"))
           \/ /\ q.pc = "answer"
              /\ api' = Proceed(api, r,
                                [q EXCEPT !.seen = [i \in DOMAIN api.heap[q.engine].index |->
                                                       api.heap[q.engine].index[i].id],
                                          !.status = 200],
                                "done")
        /\ UNCHANGED <<items, cfg, disk, hist, ret>>

\* one step of the /upload handler r: main.py 649-677 up to the await,
\* 680-793 chunking, embedding and save_index, 796-797 the invalidation
UploadStep(r) ==
    LET u == api.reqs[r]
    IN  /\ u.kind = "upload" /\ u.pc # "done" /\ api.running \in {0, r}
        /\ \/ /\ u.pc = "receive"
              /\ api' = Proceed(api, r, u, "index")
              /\ UNCHANGED <<disk, hist>>
           \/ /\ u.pc = "index"
              /\ \E res \in {UploadResult(disk, u.workspace, u.file)} :
                    IF res.kind = "raise"
                    THEN /\ api' = Proceed(api, r,
                                           [u EXCEPT !.status = IF res.exc = "HTTP400" THEN 400
                                                                ELSE 500], "done")
                         /\ UNCHANGED <<disk, hist>>
                    ELSE /\ api' = Proceed(api, r, u, "invalidate")
                         /\ Saved(u.workspace, res.snap)
           \/ /\ u.pc = "invalidate"
              /\ api' = Proceed([api EXCEPT !.engines = Invalidate(@, u.workspace),
                                            !.uploaded = @ \cup {u.file.name}],
                                r, [u EXCEPT !.status = 200], "done")
              /\ UNCHANGED <<disk, hist>>
        /\ UNCHANGED <<items, cfg, ret>>

\* chunk_text called on its own: the call, each pass of its loop, its return
ChunkStart(text, target_tokens, overlap_tokens) ==
    /\ ret.op = "none"
    /\ ret' = [op |-> "chunk_text",
               args |-> [text |-> text, target_tokens |-> target_tokens,
                         overlap_tokens |-> overlap_tokens],
               loop |-> ChunkInit(text, target_tokens, overlap_tokens), passes |-> 0]
    /\ UNCHANGED <<items, cfg, disk, hist, api>>

ChunkIter ==
    /\ ret.op = "chunk_text" /\ ~ret.loop.done
    /\ ret.passes <= MaxText
    /\ ret' = [ret EXCEPT !.loop = ChunkBody(ret.loop), !.passes = @ + 1]
    /\ UNCHANGED <<items, cfg, disk, hist, api>>

ChunkReturn ==
    /\ ret.op = "chunk_text" /\ ret.loop.done
    /\ ret' = Idle
    /\ UNCHANGED <<items, cfg, disk, hist, api>>

\* ================================================================ claims
ChunkIds(passages) == [i \in DOMAIN passages |-> passages[i].metadata.chunk_id]
IsRetrieve == ret.op = "retrieve"

\* C1: a retrieve scoped to workspace W returns only passages whose
\* workspace_id is W, whatever else the index holds, and returns the empty
\* list without raising when no item is in scope.
C1_WorkspaceScoped ==
    (IsRetrieve /\ ret.args.workspace_id # Null) =>
        /\ \A i \in DOMAIN ret.val : ret.val[i].metadata.workspace_id = ret.args.workspace_id
        /\ (\A i \in DOMAIN items :
                \/ items[i].metadata.workspace_id # ret.args.workspace_id
                \/ ~allowed(items[i], Null, ret.args.document_ids))
            => (ret.kind = "return" /\ ret.val = <<>>)

C1_Witness ==
    /\ IsRetrieve /\ ret.args.workspace_id = "w1" /\ ret.kind = "return" /\ ret.val # <<>>
    /\ \E i \in DOMAIN items : items[i].metadata.workspace_id = "w2"

\* C2: retrieve returns the min(top_k, n) candidates of the filtered pool
\* with the highest combined score, in descending order of that score, the
\* score being lexical_norm, embedding_norm or alpha*lexical_norm +
\* beta*embedding_norm according to the mode, and tags each passage with the
\* method used.
C2_Expected(c, lex, emb) ==
    IF c.mode = "bm25" THEN lex
    ELSE IF c.mode = "embeddings" THEN emb
    ELSE Frac(c.alpha * lex.num * emb.den + c.beta * emb.num * lex.den, 100 * lex.den * emb.den)

C2_TopKByCombined ==
    (IsRetrieve /\ ret.kind = "return") =>
        LET a == ret.args
            cands == KeepAt(items, {i \in DOMAIN items :
                                       allowed(items[i], a.workspace_id, a.document_ids)})
            n == Len(cands)
            corpus == [i \in 1..n |-> Tokens(cands[i].metadata.text)]
            lex == norm(BM25Scores(corpus, Tokens(a.question)))
            emb == norm(EmbScores(cands, Normalize(a.emb.vec)))
            exp(i) == C2_Expected(cfg, lex[i], emb[i])
            k == Len(ret.val)
            pos(j) == CHOOSE i \in 1..n : cands[i].id = ret.val[j].metadata.chunk_id
            chosen == {pos(j) : j \in 1..k}
        IN  /\ k = Min2(cfg.top_k, n)
            /\ \A j \in 1..k : \E i \in 1..n : cands[i].id = ret.val[j].metadata.chunk_id
            /\ \A j1, j2 \in 1..k : j1 # j2 => pos(j1) # pos(j2)
            /\ \A j \in 1..k :
                  /\ ret.val[j].score = exp(pos(j))
                  /\ ret.val[j].text = cands[pos(j)].metadata.text
                  /\ ret.val[j].metadata.method = cfg.mode
            /\ \A j \in 1..(k - 1) : FracGE(ret.val[j].score, ret.val[j + 1].score)
            /\ \A i \in (1..n) \ chosen : \A j \in 1..k : FracGE(ret.val[j].score, exp(i))

C2_Witness ==
    /\ IsRetrieve /\ ret.kind = "return" /\ cfg.mode = "hybrid" /\ cfg.alpha + cfg.beta # 100
    /\ Len(ret.pool) > Len(ret.val) /\ Len(ret.val) >= 2
    /\ FracGT(ret.val[1].score, ret.val[2].score)
    /\ ret.val[2].score.num # 0

\* C3: with a document-id allow-list an item is a candidate exactly when its
\* workspace matches and its document id is in the list, whatever document
\* name it carries.
C3_AllowListById ==
    (IsRetrieve /\ ret.args.document_ids # {}) =>
        Range(ret.pool) =
            {items[i].id : i \in {j \in DOMAIN items :
                /\ ret.args.workspace_id = Null
                      \/ items[j].metadata.workspace_id = ret.args.workspace_id
                /\ items[j].metadata.document_id \in ret.args.document_ids}}

\* C4 as stated: norm maps a non-empty list into [0,1] with the minimum at 0
\* and the maximum at 1 whenever they differ, and to all 0 (common value 0)
\* or all 1 when all scores are equal.
C4_Original ==
    ret.op = "norm" =>
        LET s == ret.args
            out == ret.val
        IN  /\ DOMAIN out = DOMAIN s
            /\ \A i \in DOMAIN s : out[i].den > 0 /\ FracGE(out[i], Zero) /\ FracGE(One, out[i])
            /\ SeqMin(s) # SeqMax(s) =>
                  \A i \in DOMAIN s : /\ s[i] = SeqMin(s) => out[i] = Zero
                                      /\ s[i] = SeqMax(s) => out[i] = One
            /\ SeqMin(s) = SeqMax(s) =>
                  \A i \in DOMAIN s : out[i] = IF s[i] = 0 THEN Zero ELSE One

\* C4 amended: norm maps a non-empty list into [0,1] without dividing by
\* zero; the minimum goes to 0 and the maximum to 1 when they differ by at
\* least 1e-9; when max - min < 1e-9 (all equal, a single candidate, or
\* nearly equal) every value is 0 if the maximum is exactly 0 and 1 otherwise.
C4_NormRange ==
    ret.op = "norm" =>
        LET s == ret.args
            out == ret.val
        IN  /\ DOMAIN out = DOMAIN s
            /\ \A i \in DOMAIN s : out[i].den > 0 /\ FracGE(out[i], Zero) /\ FracGE(One, out[i])
            /\ SeqMax(s) - SeqMin(s) >= EPS =>
                  \A i \in DOMAIN s : /\ s[i] = SeqMin(s) => out[i] = Zero
                                      /\ s[i] = SeqMax(s) => out[i] = One
            /\ SeqMax(s) - SeqMin(s) < EPS =>
                  \A i \in DOMAIN s : out[i] = IF SeqMax(s) = 0 THEN Zero ELSE One

C4_Witness ==
    /\ ret.op = "norm" /\ Len(ret.args) >= 2
    /\ SeqMin(ret.args) # SeqMax(ret.args) /\ SeqMax(ret.args) - SeqMin(ret.args) < EPS
    /\ \A i \in DOMAIN ret.val : ret.val[i] = One

\* C5 as stated: retrieve(scope) returns the same passages in the same
\* order as retrieve without scope followed by keeping the passages that
\* satisfy the scope.
C5_InScope(md, workspace_id, document_ids) ==
    /\ workspace_id = Null \/ md.workspace_id = workspace_id
    /\ document_ids = {}
          \/ (IF md.document_name \notin {Null, ""} THEN md.document_name ELSE md.document_id)
                \in document_ids
C5_FilterUnscoped ==
    LET all == Retrieve(items, cfg, ret.args.question, Null, {}, ret.args.emb).val
    IN  KeepAt(all, {i \in DOMAIN all :
                        C5_InScope(all[i].metadata, ret.args.workspace_id,
                                   ret.args.document_ids)})

C5_Original ==
    (IsRetrieve /\ ret.args.emb.ok) => ChunkIds(ret.val) = ChunkIds(C5_FilterUnscoped)

\* C5 amended: when top_k is at least the number of indexed items (nothing
\* is cut off), retrieve(scope) returns the same set of passages (text and
\* metadata) as filtering the unscoped result by the scope; scores and order
\* are computed within the scoped pool.
C5_SameSetUntruncated ==
    (IsRetrieve /\ ret.args.emb.ok /\ cfg.top_k >= Len(items)) =>
        {<<p.text, p.metadata>> : p \in Range(ret.val)}
            = {<<p.text, p.metadata>> : p \in Range(C5_FilterUnscoped)}

C5_Witness ==
    /\ IsRetrieve /\ ret.args.emb.ok /\ cfg.top_k >= Len(items) /\ Len(items) >= 2
    /\ ret.args.workspace_id = "w1" /\ ret.val # <<>>
    /\ \E i \in DOMAIN items : items[i].metadata.workspace_id = "w2"

\* C6: an embedding-provider failure during retrieve, or an oracle failure
\* during rerank, leaves answer_question as that exception: no answer, no
\* fallback result, and no second call of the collaborator that failed.
C6_EmbeddingFailed ==
    /\ ret.op = "answer_question" /\ ~ret.args.emb.ok
    /\ \E i \in DOMAIN items : allowed(items[i], ret.args.workspace_id, ret.args.document_ids)
C6_Retrieved ==
    Retrieve(items, cfg, ret.args.question, ret.args.workspace_id, ret.args.document_ids,
             ret.args.emb)
C6_OracleFailedAt(k) ==
    /\ ret.op = "answer_question" /\ cfg.rerank_enabled
    /\ C6_Retrieved.kind = "return" /\ Len(C6_Retrieved.val) > 1
    /\ k \in 1..Len(C6_Retrieved.val)
    /\ OracleAt(ret.args.oracle, k) = Raise
    /\ \A j \in 1..(k - 1) : OracleAt(ret.args.oracle, j) # Raise

C6_FailurePropagates ==
    /\ C6_EmbeddingFailed =>
          /\ ret.kind = "raise" /\ ret.exc = "EmbeddingError" /\ ret.val.answer = Null
          /\ ret.chunks = <<>> /\ ret.val.sources = <<>>
          /\ ret.emb_calls = 1 /\ ret.oracle_calls = 0 /\ ret.llm_calls = 0
    /\ \A k \in 1..MaxItems :
          C6_OracleFailedAt(k) =>
              /\ ret.kind = "raise" /\ ret.exc = "OracleError" /\ ret.val.answer = Null
              /\ ret.chunks = <<>> /\ ret.val.sources = <<>>
              /\ ret.emb_calls = 1 /\ ret.oracle_calls = k /\ ret.llm_calls = 0

C6_Witness ==
    /\ C6_OracleFailedAt(2) /\ ret.kind = "raise" /\ ret.exc = "OracleError"

\* C7: load_index returns a snapshot only when the three artifacts exist;
\* with one or two of them missing it returns None without raising, and
\* needs_rebuild returns true.
C7_Present(workspace) ==
    Cardinality({f \in FileNames : disk[<<workspace, f>>].state # "absent"})

C7_PartialIsNoSnapshot ==
    /\ ret.op = "load_index" =>
          /\ (ret.kind = "return" /\ ret.val.found) => C7_Present(ret.args.workspace) = 3
          /\ C7_Present(ret.args.workspace) \in {1, 2} =>
                (ret.kind = "return" /\ ~ret.val.found)
    /\ (ret.op = "needs_rebuild" /\ C7_Present(ret.args.workspace) \in {1, 2}) =>
          (ret.kind = "return" /\ ret.val = TRUE)

C7_Witness ==
    /\ ret.op = "load_index" /\ C7_Present(ret.args.workspace) = 2
    /\ ret.kind = "return" /\ ~ret.val.found

\* C8: every successful load_index(W) returns a vector matrix, chunk
\* metadata and lexical model written by one and the same save_index(W)
\* call, also after a save over an existing snapshot was interrupted or
\* while one is in progress.
C8_OneSavePerLoad ==
    (ret.op = "load_index" /\ ret.kind = "return" /\ ret.val.found) =>
        \E docs \in SavedDocLists :
            LET s == BuildSnapshot(ret.args.workspace, docs)
            IN  /\ ret.val.embeddings = s.embeddings
                /\ ret.val.chunks_meta = s.chunks_meta
                /\ ret.val.bm25 = s.bm25

\* C9: a load_index after a completed save_index of the same workspace
\* returns the vectors, the chunk records in their order and the lexical
\* model of the latest save to that workspace, whatever was saved to it
\* before and whatever is saved to other workspaces.
C9_RoundTrip ==
    (ret.op = "load_index" /\ hist[ret.args.workspace].complete) =>
        /\ ret.kind = "return" /\ ret.val.found
        /\ ret.val.embeddings = hist[ret.args.workspace].args.embeddings
        /\ ret.val.chunks_meta = hist[ret.args.workspace].args.chunks_meta
        /\ ret.val.bm25 = hist[ret.args.workspace].args.bm25

C9_Witness ==
    /\ ret.op = "load_index" /\ ret.args.workspace = "w1"
    /\ hist["w1"].complete /\ hist["w1"].saves >= 2
    /\ hist["w2"].complete /\ Len(hist["w2"].args.chunks_meta) = 1
    /\ ret.kind = "return" /\ ret.val.found /\ Len(ret.val.chunks_meta) = 2

C11_OtherMtimes(doc) == (Mtimes \cup {"300"}) \ {doc.mtime}

C11_Lifecycle ==
    /\ (ret.op = "needs_rebuild" /\ hist[ret.args.workspace].saves = 0) =>
          (ret.kind = "return" /\ ret.val = TRUE)
    /\ (ret.op = "cli_index" /\ ret.kind = "return" /\ ret.saved) =>
          LET w == ret.args.workspace
              D == ret.args.input
          IN  /\ NeedsRebuild(disk, w, D).kind = "return"
              /\ NeedsRebuild(disk, w, D).val = FALSE
              /\ \A i \in DOMAIN D : \A t \in C11_OtherMtimes(D[i]) :
                    NeedsRebuild(disk, w, [D EXCEPT ![i].mtime = t]).val = TRUE

\* C12: every operation that changes a workspace's persisted snapshot
\* (index script, CLI rebuild, upload) leaves a snapshot built entirely from
\* the documents it processed: no chunk record and no vector row of the
\* previous snapshot is carried over.
C12_WholeReplace ==
    (ret.op \in {"cli_index", "index_workspace", "upload"} /\ ret.saved) =>
        LET now == LoadIndex(disk, ret.args.workspace).val
        IN  /\ now.found
            /\ now.chunks_meta = ret.built.chunks_meta
            /\ now.embeddings = ret.built.embeddings

\* ---------------------------------------------------------------- C16
\* what the oracle's answer counts as: the number it states, 0 when it states
\* none, limited to [0,1]
OracleScore(raw) ==
    CASE raw = "0.2" -> Frac(1, 5)
      [] raw = "0,9" -> Frac(9, 10)
      [] raw = "1.5" -> One
      [] OTHER -> Zero
C16_Finals(candidates, oracle) ==
    LET sorted == SortDesc([i \in DOMAIN candidates |->
                      [item |-> i,
                       score |-> Blend(cfg.mix_weight, OracleScore(OracleAt(oracle, i)),
                                       100 - cfg.mix_weight, candidates[i].score)]])
    IN  [i \in DOMAIN sorted |-> sorted[i].score]

C17_MalformedIsZero ==
    (/\ ret.op = "rerank" /\ ret.args.candidates # <<>>
     /\ \A i \in DOMAIN ret.args.candidates : OracleAt(ret.args.oracle, i) # Raise)
        => /\ ret.kind = "return"
           /\ ret.oracle_calls = Len(ret.args.candidates)
           /\ \A i \in DOMAIN ret.val :
                  /\ ret.val[i].ce_score # NaN
                  /\ FracGE(ret.val[i].ce_score, Zero) /\ FracGE(One, ret.val[i].ce_score)
           /\ ret.args.top_k_out >= Len(ret.args.candidates)
                  => \A i \in DOMAIN ret.args.candidates :
                         \E j \in DOMAIN ret.val :
                             ret.val[j].ce_score = OracleScore(OracleAt(ret.args.oracle, i))

\* ---------------------------------------------------------------- C18
\* the words of the input, the step the claim names, and the words of the
\* k-th chunk of the call in progress
C18_Words == Split(ret.args.text)
C18_Step ==
    IF ret.args.target_tokens - ret.args.overlap_tokens >= 1
    THEN ret.args.target_tokens - ret.args.overlap_tokens ELSE 1
C18_Window(k) == Split(ret.loop.chunks[k].text)

\* C18: every chunk is a window of consecutive words of the input, the k-th
\* starting (k - 1) * step words in, with at least one and at most
\* target_size words; when chunk_text returns every word is in some window
C18_Covers ==
    ret.op = "chunk_text" =>
        /\ \A k \in DOMAIN ret.loop.chunks :
              /\ C18_Window(k) = SubSeq(C18_Words, (k - 1) * C18_Step + 1,
                                        Min2((k - 1) * C18_Step + ret.args.target_tokens,
                                             Len(C18_Words)))
              /\ Len(C18_Window(k)) >= 1
              /\ Len(C18_Window(k)) <= ret.args.target_tokens
        /\ ret.loop.done
              => \A w \in DOMAIN C18_Words :
                     \E k \in DOMAIN ret.loop.chunks :
                         /\ (k - 1) * C18_Step < w
                         /\ w <= (k - 1) * C18_Step + Len(C18_Window(k))

\* a call returned overlapping chunks of a text with different words
C18_Witness ==
    /\ ret.op = "chunk_text" /\ ret.loop.done
    /\ ret.args.overlap_tokens >= 1 /\ ret.args.overlap_tokens < ret.args.target_tokens
    /\ Len(ret.loop.chunks) >= 2
    /\ C18_Window(1) # C18_Window(2)
    /\ Len(C18_Words) > ret.args.target_tokens

\* ---------------------------------------------------------------- C19
\* C19: chunk_text never holds more chunks than the input has words, a pass
\* of the loop that does not end it moves the window start on by
\* step = max(1, target_size - overlap_size), and every call reaches its return
C19_Terminates ==
    /\ [](ret.op = "chunk_text"
             => /\ Len(ret.loop.chunks) <= Len(C18_Words)
                /\ ret.loop.step = C18_Step /\ ret.loop.step >= 1)
    /\ [][(ret.op = "chunk_text" /\ ret'.op = "chunk_text" /\ ~ret'.loop.done)
             => ret'.loop.i = ret.loop.i + C18_Step]_vars
    /\ ((ret.op = "chunk_text") ~> (ret.op = "chunk_text" /\ ret.loop.done))

\* a call with overlap_size >= target_size returned one chunk per word
C19_Witness ==
    /\ ret.op = "chunk_text" /\ ret.loop.done
    /\ ret.args.overlap_tokens >= ret.args.target_tokens
    /\ Len(ret.loop.chunks) >= 3
    /\ Len(ret.loop.chunks) = Len(C18_Words)

\* ---------------------------------------------------------------- C20
\* C20: no chunks for a text without words; else the chunks are numbered
\* 1..n, is_first marks the first only, and when chunk_text returns is_last
\* marks the final chunk only, which is the first whose window reaches the
\* end of the input
C20_Flags ==
    ret.op = "chunk_text" =>
        /\ C18_Words = <<>> => (ret.loop.done /\ ret.loop.chunks = <<>>)
        /\ \A k \in DOMAIN ret.loop.chunks :
              /\ ret.loop.chunks[k].chunk_index = k
              /\ ret.loop.chunks[k].is_first <=> (k = 1)
        /\ (ret.loop.done /\ C18_Words # <<>>)
              => /\ ret.loop.chunks # <<>>
                 /\ \A k \in DOMAIN ret.loop.chunks :
                        /\ ret.loop.chunks[k].is_last <=> (k = Len(ret.loop.chunks))
                        /\ ((k - 1) * C18_Step + ret.args.target_tokens >= Len(C18_Words))
                               <=> (k = Len(ret.loop.chunks))

\* a call returned several overlapping chunks, the final one marked last
C20_Witness ==
    /\ ret.op = "chunk_text" /\ ret.loop.done
    /\ ret.args.overlap_tokens >= 1
    /\ Len(ret.loop.chunks) >= 3
    /\ ret.loop.chunks[Len(ret.loop.chunks)].is_last
    /\ ~ret.loop.chunks[1].is_last /\ ret.loop.chunks[1].is_first

\* ---------------------------------------------------------------- C13
C13_Cached(e) == \E w \in Workspaces : api.engines[w] = e
C13_Generation(e) == AddAll(<<>>, ItemsOfCache(api.heap[e].from))

\* C13: no write to an index interleaves with a read of it: an engine in the
\* cache has its index filled with every record of the snapshot it was built
\* from, a query that was answered read exactly that generation, and a step
\* never changes the index of an engine that is in the cache or that a handler
\* past its build holds
C13_NoInterleave ==
    /\ [](/\ \A e \in 1..Len(api.heap) : C13_Cached(e) => api.heap[e].index = C13_Generation(e)
          /\ \A r \in 1..Len(api.reqs) :
                (api.reqs[r].kind = "query" /\ api.reqs[r].status = 200)
                    => api.reqs[r].seen = [i \in DOMAIN C13_Generation(api.reqs[r].engine) |->
                                              C13_Generation(api.reqs[r].engine)[i].id])
    /\ [][\A e \in 1..Len(api.heap) :
             (C13_Cached(e) \/ \E r \in 1..Len(api.reqs) :
                              api.reqs[r].engine = e /\ api.reqs[r].pc \in {"answer", "done"})
                 => api.heap'[e] = api.heap[e]]_vars

\* two queries were answered by two generations, both with records
C13_Witness ==
    \E r1, r2 \in 1..Len(api.reqs) :
        /\ api.reqs[r1].status = 200 /\ api.reqs[r2].status = 200
        /\ api.reqs[r1].kind = "query" /\ api.reqs[r2].kind = "query"
        /\ api.reqs[r1].engine # api.reqs[r2].engine
        /\ Len(api.reqs[r1].seen) > 0
        /\ Len(api.reqs[r2].seen) > Len(api.reqs[r1].seen)

\* ---------------------------------------------------------------- C14
C14_Building(r) ==
    api.reqs[r].kind = "query" /\ api.reqs[r].pc \in {"load", "create", "add", "publish"}

\* C14: for each workspace at most one handler is between the cache miss and
\* the publication of the engine it builds
C14_OneBuild ==
    \A w \in Workspaces :
        Cardinality({r \in 1..Len(api.reqs) : C14_Building(r) /\ api.reqs[r].workspace = w}) <= 1

\* a build is in progress while a second query for the workspace has arrived
\* and no engine is cached
C14_Witness ==
    \E r1, r2 \in 1..Len(api.reqs) :
        /\ r1 # r2 /\ C14_Building(r1) /\ api.reqs[r1].pc = "add"
        /\ api.reqs[r2].kind = "query" /\ api.reqs[r2].pc = "check"
        /\ api.reqs[r2].workspace = api.reqs[r1].workspace
        /\ api.engines[api.reqs[r1].workspace] = 0

\* ---------------------------------------------------------------- C15
C15_UploadedIds(workspace, name) ==
    {UploadChunkId(UploadDocId(workspace, name), k) :
         k \in 1..Len(chunk_text(FileChars(name), ChunkCfg.target_tokens,
                                 ChunkCfg.overlap_tokens))}

\* C15: a query that starts after an upload to its workspace returned is
\* answered from an index with the chunks of that upload; engines are built
\* only on a miss, so no more engines are built than uploads returned, plus one
C15_Invalidated ==
    /\ \A r \in 1..Len(api.reqs) :
          (api.reqs[r].kind = "query" /\ api.reqs[r].status = 200)
              => \A name \in api.reqs[r].after :
                     C15_UploadedIds(api.reqs[r].workspace, name) \subseteq Range(api.reqs[r].seen)
    /\ Len(api.heap) <= 1 + Cardinality({r \in 1..Len(api.reqs) :
                                            api.reqs[r].kind = "upload" /\ api.reqs[r].status = 200})

\* a query that started after an upload was answered by a second engine,
\* and the first engine had been in the cache before the upload
C15_Witness ==
    \E r \in 1..Len(api.reqs) :
        /\ api.reqs[r].kind = "query" /\ api.reqs[r].status = 200
        /\ api.reqs[r].after # {} /\ api.reqs[r].engine = 2
        /\ \E r0 \in 1..Len(api.reqs) : r0 < r /\ api.reqs[r0].engine = 1 /\ api.reqs[r0].status = 200

\* ------------------------------------------------- InMemoryIndex claims
C21_Sat(item) ==
    \A i \in DOMAIN ret.args.filter :
        MetaGet(item.metadata, ret.args.filter[i][1]) = ret.args.filter[i][2]
C21_Score(item) == Cosine(Normalize(ret.args.embedding), item.embedding)
C21_Returned(item) == \E h \in DOMAIN ret.val : ret.val[h].id = item.id

\* C21: query (top_k >= 0) returns at most top_k hits in descending score
\* order; every hit is an item of the index that satisfies every key=value
\* pair of the filter, with its dot product as score; no item that
\* satisfies the filter and is left out scores higher than a returned hit;
\* a query on an index without items returns the empty list and never raises
C21_QueryContract ==
    ret.op = "query" =>
        /\ items = <<>> => ret.kind = "return" /\ ret.val = <<>>
        /\ ret.kind = "return" =>
              /\ Len(ret.val) <= ret.args.top_k
              /\ Len(ret.val) =
                    Min2(ret.args.top_k, Cardinality({i \in DOMAIN items : C21_Sat(items[i])}))
              /\ \A i, j \in DOMAIN ret.val :
                    i < j => FracGE(ret.val[i].score, ret.val[j].score) /\ ret.val[i].id # ret.val[j].id
              /\ \A h \in DOMAIN ret.val :
                    \E i \in DOMAIN items :
                        /\ items[i].id = ret.val[h].id
                        /\ items[i].metadata = ret.val[h].metadata
                        /\ C21_Sat(items[i])
                        /\ ret.val[h].score = C21_Score(items[i])
              /\ \A i \in DOMAIN items :
                    C21_Sat(items[i]) /\ ~C21_Returned(items[i]) =>
                        \A h \in DOMAIN ret.val :
                            ~FracGT(C21_Score(items[i]), ret.val[h].score)

\* a filtered query that returns a hit, leaves out an item that satisfies the
\* filter and skips one that does not
C21_Witness ==
    /\ ret.op = "query" /\ ret.kind = "return" /\ ret.val # <<>>
    /\ ret.args.filter # NoFilter
    /\ \E i \in DOMAIN items : C21_Sat(items[i]) /\ ~C21_Returned(items[i])
    /\ \E i \in DOMAIN items : ~C21_Sat(items[i])

C22_IsZero(v) == \A k \in DOMAIN v : v[k] = 0
C22_Added(i) == hist[items[i].id][1]

\* C22 as stated: every embedding stored in the index has unit L2 norm
C22_Original ==
    \A i \in DOMAIN items :
        Dot(items[i].embedding, items[i].embedding) = UnitLen * UnitLen

\* C22: every stored embedding whose added vector is not the zero vector has
\* unit L2 norm and the direction of the added vector; an added zero vector
\* is stored as the zero vector
C22_UnitNorm ==
    \A i \in DOMAIN items :
        /\ hist[items[i].id] # <<>>
        /\ IF C22_IsZero(C22_Added(i).embedding)
           THEN items[i].embedding = C22_Added(i).embedding
           ELSE /\ Dot(items[i].embedding, items[i].embedding) = UnitLen * UnitLen
                /\ \A k \in DOMAIN items[i].embedding :
                      items[i].embedding[k] * VecNorm(C22_Added(i).embedding)
                          = C22_Added(i).embedding[k] * UnitLen

\* the index holds a vector that add rescaled and a zero vector
C22_Witness ==
    /\ \E i \in DOMAIN items :
          ~C22_IsZero(C22_Added(i).embedding) /\ items[i].embedding # C22_Added(i).embedding
    /\ \E i \in DOMAIN items : C22_IsZero(items[i].embedding)

\* C28: the index holds exactly one item per id, for exactly the ids added
\* and not deleted or cleared since, and it is the item of the latest add of
\* that id; delete of an absent id changes nothing and does not raise
C28_LatestPerId ==
    /\ [](/\ \A i, j \in DOMAIN items : i # j => items[i].id # items[j].id
          /\ {items[i].id : i \in DOMAIN items} = {id \in PoolIds : hist[id] # <<>>}
          /\ \A i \in DOMAIN items :
                items[i] = Item(items[i].id, Normalize(hist[items[i].id][1].embedding),
                                hist[items[i].id][1].metadata)
          /\ ret.op \in {"add", "delete", "clear"} => ret.kind = "return")
    /\ [][ret'.op = "delete" /\ (\A i \in DOMAIN items : items[i].id \notin Range(ret'.args))
            => items' = items]_vars

\* one add call gave two items of the same id, the index keeps the second
\* next to an item of another id
C28_Witness ==
    /\ ret.op = "add" /\ Len(ret.args) = 2
    /\ ret.args[1].id = ret.args[2].id /\ ret.args[1] # ret.args[2]
    /\ Len(items) >= 2
    /\ \E i \in DOMAIN items : items[i].metadata = ret.args[2].metadata

\* ------------------------------------------------ retriever claims, cont.
\* the index without the items outside the scope of the call at the
\* positions in drop
C23_Without(drop) ==
    KeepAt(items, {i \in DOMAIN items : i \notin drop})
C23_Outside ==
    {i \in DOMAIN items :
        ~C5_InScope(items[i].metadata, ret.args.workspace_id, ret.args.document_ids)}

\* C23: retrieve with a scope gives the same outcome (passages, scores,
\* order, or the same exception) on every index that holds the same items
\* inside the scope and lacks some of the items outside it
C23_ScopedLexical ==
    IsRetrieve =>
        \A drop \in SUBSET C23_Outside :
            \E r \in {Retrieve(C23_Without(drop), cfg, ret.args.question, ret.args.workspace_id,
                                ret.args.document_ids, ret.args.emb)} :
                r.kind = ret.kind /\ r.val = ret.val /\ r.exc = ret.exc

\* a scoped call that ranks two passages by their lexical scores while the
\* index holds an item outside the scope that shares a query word
C23_Witness ==
    /\ IsRetrieve /\ ret.kind = "return" /\ Len(ret.val) >= 2
    /\ cfg.mode \in {"bm25", "hybrid"}
    /\ ret.val[1].score # ret.val[2].score
    /\ \E i \in C23_Outside :
          \E j \in DOMAIN ret.args.question :
              TermFreq(LowerWord(ret.args.question[j]), Tokens(items[i].metadata.text)) > 0

C24_PoolEmpty ==
    \A i \in DOMAIN items :
        ~C5_InScope(items[i].metadata, ret.args.workspace_id, ret.args.document_ids)

\* C24: a retrieve call whose filtered pool is not empty calls the
\* embedding provider exactly once, with the list of the one query text, in
\* every mode; a call whose pool is empty does not call it and returns the
\* empty list whatever the provider would do
C24_EmbedOnce ==
    IsRetrieve =>
        IF C24_PoolEmpty
        THEN ret.emb_calls = 0 /\ ret.emb_texts = <<>> /\ ret.kind = "return" /\ ret.val = <<>>
        ELSE /\ ret.emb_calls = 1 /\ ret.emb_texts = <<<<ret.args.question>>>>
             /\ ret.kind = "raise" <=> ~ret.args.emb.ok

\* a lexical-only call on a filled pool whose one provider call failed
C24_Witness ==
    /\ IsRetrieve /\ cfg.mode = "bm25" /\ ~C24_PoolEmpty /\ items # <<>>
    /\ ret.emb_calls = 1 /\ ~ret.args.emb.ok /\ ret.kind = "raise"

\* ------------------------------------------------ snapshot claims, cont.
\* C25: the snapshot of every workspace has as many vector rows as chunk
\* records, row i is the embedding of the text of record i, and every item
\* of the index built from the loaded snapshot carries the (normalised)
\* embedding of its own text
C25_RowsMatchRecords ==
    \A w \in Workspaces :
        \E c \in {LoadIndex(disk, w)} :
            (c.kind = "return" /\ c.val.found) =>
                /\ Len(c.val.embeddings) = Len(c.val.chunks_meta)
                /\ \A i \in DOMAIN c.val.chunks_meta :
                      c.val.embeddings[i] = EmbedChars(c.val.chunks_meta[i].text)
                /\ \A it \in Range(AddAll(<<>>, ItemsOfCache(c.val))) :
                      it.embedding = Normalize(EmbedChars(it.metadata.text))

\* an upload has added its rows to a snapshot built before, and the
\* snapshot holds rows that differ
C25_Witness ==
    /\ ret.op = "upload" /\ ret.kind = "return" /\ ret.saved
    /\ ret.before.kind = "return" /\ ret.before.val.found
    /\ \E c \in {LoadIndex(disk, ret.args.workspace)} :
          /\ c.kind = "return" /\ c.val.found
          /\ Len(c.val.embeddings) > Len(ret.before.val.embeddings)
          /\ \E i, j \in DOMAIN c.val.embeddings : c.val.embeddings[i] # c.val.embeddings[j]

\* C29: the chunk records of the snapshot of every workspace have pairwise
\* distinct chunk ids, and the index built from the loaded snapshot holds
\* one item per chunk record
C29_DistinctChunkIds ==
    \A w \in Workspaces :
        \E c \in {LoadIndex(disk, w)} :
            (c.kind = "return" /\ c.val.found) =>
                /\ \A i, j \in DOMAIN c.val.chunks_meta :
                      i # j => c.val.chunks_meta[i].chunk_id # c.val.chunks_meta[j].chunk_id
                /\ Len(AddAll(<<>>, ItemsOfCache(c.val))) = Len(c.val.chunks_meta)

\* --------------------------------------------------- engine claims, cont.
\* what retrieve returned to the answer_question call of ret
C26_Retrieved ==
    Retrieve(items, cfg, ret.args.question, ret.args.workspace_id, ret.args.document_ids,
             ret.args.emb)

\* C26: answer_question calls the oracle only if reranking is enabled and
\* retrieve returned more than one passage; otherwise the oracle is not
\* called and the passages used are the retrieved ones, in their order
C26_OracleOnlyWhenNeeded ==
    ret.op = "answer_question" =>
        \E r \in {C26_Retrieved} :
            /\ ret.oracle_calls > 0 =>
                  cfg.rerank_enabled /\ r.kind = "return" /\ Len(r.val) > 1
            /\ (r.kind = "return" /\ (~cfg.rerank_enabled \/ Len(r.val) <= 1)) =>
                  /\ ret.oracle_calls = 0
                  /\ ret.kind = "return" => ret.chunks = r.val

\* reranking is enabled and retrieve returned exactly one passage
C26_Witness ==
    /\ ret.op = "answer_question" /\ cfg.rerank_enabled /\ ret.kind = "return"
    /\ Len(C26_Retrieved.val) = 1 /\ Len(items) >= 2
    /\ ret.oracle_calls = 0 /\ ret.chunks = C26_Retrieved.val

\* -------------------------------------------------- rerank claims, cont.
\* the entry is a copy of candidate i with that candidate's own scores
C27_CopyOf(entry, i) ==
    LET c == ret.args.candidates[i]
        ce == OracleScore(OracleAt(ret.args.oracle, i))
    IN  /\ entry.text = c.text /\ entry.score = c.score /\ entry.metadata = c.metadata
        /\ entry.ce_score = ce
        /\ entry.final_score = Blend(cfg.mix_weight, ce, 100 - cfg.mix_weight, c.score)

\* C27: the scored list of a rerank call that cuts nothing off (top_k_out at
\* least the number of candidates, oracle answers that are numbers) is a
\* one-to-one image of the candidates: its entries can be matched with the
\* candidates so that each entry is a copy of its own candidate with that
\* candidate's oracle score and blended score
C27_OneToOne ==
    (/\ ret.op = "rerank" /\ ret.kind = "return"
     /\ ret.args.top_k_out >= Len(ret.args.candidates)
     /\ \A i \in DOMAIN ret.args.candidates : OracleAt(ret.args.oracle, i) # "nan") =>
        /\ Len(ret.val) = Len(ret.args.candidates)
        /\ \E f \in [DOMAIN ret.val -> DOMAIN ret.args.candidates] :
              /\ \A i, j \in DOMAIN ret.val : i # j => f[i] # f[j]
              /\ \A i \in DOMAIN ret.val : C27_CopyOf(ret.val[i], f[i])

\* ------------------------------------------------------ API claims, cont.
\* the engine e was built for a workspace that had no snapshot
C30_Empty(e) == e # 0 /\ ~api.heap[e].from.found

\* C30: an engine built without snapshot has an empty index and is cached;
\* while it is cached every query of the workspace gets it and retrieves no
\* passage; it leaves the cache only by the invalidation of an upload to the
\* workspace, whatever is saved to the disk meanwhile
C30_StaleEmptyEngine ==
    /\ [](\A r \in DOMAIN api.reqs :
            (/\ api.reqs[r].kind = "query" /\ api.reqs[r].pc = "done"
             /\ api.reqs[r].status = 200 /\ C30_Empty(api.reqs[r].engine))
                => api.reqs[r].seen = <<>>)
    /\ [][\A r \in DOMAIN api.reqs :
            (/\ api.reqs[r].kind = "query" /\ api.reqs[r].pc = "publish"
             /\ api'.reqs[r].pc # "publish" /\ ~api.reqs[r].cache.found)
                => /\ api'.engines[api.reqs[r].workspace] = api.reqs[r].engine
                   /\ api'.heap[api.reqs[r].engine].index = <<>>]_vars
    /\ [][\A w \in Workspaces :
            C30_Empty(api.engines[w]) =>
                /\ api'.engines[w] # api.engines[w] =>
                      \E u \in DOMAIN api.reqs :
                          /\ api.reqs[u].kind = "upload" /\ api.reqs[u].workspace = w
                          /\ api.reqs[u].pc = "invalidate" /\ api'.reqs[u].pc = "done"
                /\ \A r \in DOMAIN api.reqs :
                      (/\ api.reqs[r].kind = "query" /\ api.reqs[r].workspace = w
                       /\ api.reqs[r].pc = "check" /\ api'.reqs[r].pc # "check")
                          => /\ api'.reqs[r].engine = api.engines[w]
                             /\ api'.reqs[r].pc = "answer"]_vars

\* the index script has saved a snapshot for the workspace, no upload was
\* made, and two queries were answered by the engine without snapshot, which
\* is still cached
C30_Witness ==
    /\ LoadIndex(disk, "w1").val.found /\ api.uploaded = {}
    /\ C30_Empty(api.engines["w1"])
    /\ \E r1, r2 \in DOMAIN api.reqs :
          /\ r1 < r2
          /\ \A r \in {r1, r2} :
                /\ api.reqs[r].kind = "query" /\ api.reqs[r].pc = "done"
                /\ api.reqs[r].engine = api.engines["w1"] /\ api.reqs[r].seen = <<>>

\* --------------------------------------------------------- specifications
Init ==
    /\ items = <<>>
    /\ cfg \in RetrievalConfigs
    /\ disk = EmptyDisk
    /\ hist = NoHist
    /\ api = NoApi
    /\ ret = Idle

Next ==
    \/ \E it \in ItemPool : Add(<<it>>)
    \/ \E q \in Questions, w \in Workspaces \cup {Null}, d \in DocIdLists, e \in EmbOutcomes :
          DoRetrieve(q, w, d, e)
    \/ Return

Spec == Init /\ [][Next]_vars

InitEngine ==
    /\ items = <<>>
    /\ cfg \in EngineConfigs
    /\ disk = EmptyDisk
    /\ hist = NoHist
    /\ api = NoApi
    /\ ret = Idle

NextEngine ==
    \/ \E it \in ItemPool : Add(<<it>>)
    \/ \E q \in Questions, w \in {"w1", Null}, e \in EngineEmbOutcomes,
          o \in OraclePlans, l \in BOOLEAN :
          AnswerQuestion(q, w, {}, e, o, l)
    \/ Return

SpecEngine == InitEngine /\ [][NextEngine]_vars

InitRerank ==
    /\ items = <<>>
    /\ cfg \in {c \in EngineConfigs : c.rerank_enabled /\ c.output_top_k = Unset
                                       /\ c.mode = "hybrid"}
    /\ disk = EmptyDisk
    /\ hist = NoHist
    /\ api = NoApi
    /\ ret = Idle

NextRerank ==
    \/ \E c \in CandidateLists, k \in 0..(MaxItems + 1), o \in RerankPlans : DoRerank(c, k, o)
    \/ Return

SpecRerank == InitRerank /\ [][NextRerank]_vars

InitNorm ==
    /\ items = <<>>
    /\ cfg \in {c \in RetrievalConfigs : c.mode = "hybrid" /\ c.top_k = 1 /\ c.alpha = 35}
    /\ disk = EmptyDisk
    /\ hist = NoHist
    /\ api = NoApi
    /\ ret = Idle

NextNorm ==
    \/ \E s \in ScoreLists : DoNorm(s)
    \/ Return

SpecNorm == InitNorm /\ [][NextNorm]_vars

InitStore ==
    /\ items = <<>>
    /\ cfg \in {c \in RetrievalConfigs : c.mode = "hybrid" /\ c.top_k = 1 /\ c.alpha = 35}
    /\ disk = EmptyDisk
    /\ hist = NoHist
    /\ api = NoApi
    /\ ret = Idle

NextStore ==
    \/ \E w \in Workspaces, docs \in SavedDocLists, cut \in Cuts :
          SaveIndex(w, docs, cut)
    \/ \E w \in Workspaces : DoLoadIndex(w)
    \/ \E w \in Workspaces, docs \in DocLists : DoNeedsRebuild(w, docs)
    \/ Return

SpecStore == InitStore /\ [][NextStore]_vars

InitLife ==
    /\ items = <<>>
    /\ cfg \in {c \in RetrievalConfigs : c.mode = "hybrid" /\ c.top_k = 1 /\ c.alpha = 35}
    /\ disk = EmptyDisk
    /\ hist = NoHist
    /\ api = NoApi
    /\ ret = Idle

NextLife ==
    \/ \E docs \in FileLists : CliIndex("w1", docs)
    \/ \E docs \in FileLists : IndexScript("w1", docs)
    \/ \E f \in UploadFiles : Upload("w1", f)
    \/ \E docs \in FileLists : DoNeedsRebuild("w1", docs)
    \/ Return

SpecLife == InitLife /\ [][NextLife]_vars

\* the API process started on a workspace without snapshot, or on the
\* snapshot the index script wrote for a.txt
InitApi ==
    /\ items = <<>>
    /\ cfg \in {c \in RetrievalConfigs : c.mode = "hybrid" /\ c.top_k = 1 /\ c.alpha = 35}
    /\ \E snap \in {IndexScriptResult("w1", <<Doc("a.txt", "100")>>).snap} :
          \/ disk = EmptyDisk /\ hist = NoHist
          \/ /\ disk = SaveIndexDisk(EmptyDisk, "w1", snap.embeddings, snap.chunks_meta,
                                     snap.bm25, SaveSteps)
             /\ hist = [NoHist EXCEPT !["w1"] = [complete |-> TRUE, args |-> snap, saves |-> 1]]
    /\ api = NoApi
    /\ ret = Idle

NextApi ==
    \/ \E f \in {NoFile} : Arrive("query", "w1", f)
    \/ \E f \in UploadFiles : Arrive("upload", "w1", f)
    \/ \E r \in 1..MaxReqs : r <= Len(api.reqs) /\ QueryStep(r)
    \/ \E r \in 1..MaxReqs : r <= Len(api.reqs) /\ UploadStep(r)

SpecApi == InitApi /\ [][NextApi]_vars

\* an index of its own, as InMemoryIndex() creates it
InitIndex ==
    /\ items = <<>>
    /\ cfg \in {c \in RetrievalConfigs : c.mode = "hybrid" /\ c.top_k = 1 /\ c.alpha = 35}
    /\ disk = EmptyDisk
    /\ hist = NoAdds
    /\ api = NoApi
    /\ ret = Idle

NextIndex ==
    \/ \E new \in AddLists : IndexAdd(new)
    \/ \E ids \in DeleteLists : IndexDelete(ids)
    \/ IndexClear
    \/ \E e \in IndexQueryVecs, k \in 0..MaxTopK, f \in Filters : IndexQuery(e, k, f)
    \/ Return

SpecIndex == InitIndex /\ [][NextIndex]_vars

\* the API process started on a workspace without snapshot, with the index
\* script run on the same index directory from outside the process
ScriptRuns == { <<Doc("b.txt", "100")>> }
ScriptUploads == {f \in UploadFiles : f.name = "b.txt"}

InitApiScript ==
    /\ items = <<>>
    /\ cfg \in {c \in RetrievalConfigs : c.mode = "hybrid" /\ c.top_k = 1 /\ c.alpha = 35}
    /\ disk = EmptyDisk
    /\ hist = NoHist
    /\ api = NoApi
    /\ ret = Idle

NextApiScript ==
    \/ \E f \in {NoFile} : Arrive("query", "w1", f)
    \/ \E f \in ScriptUploads : Arrive("upload", "w1", f)
    \/ \E r \in 1..MaxReqs : r <= Len(api.reqs) /\ QueryStep(r)
    \/ \E r \in 1..MaxReqs : r <= Len(api.reqs) /\ UploadStep(r)
    \/ \E docs \in ScriptRuns : IndexScript("w1", docs)
    \/ Return

SpecApiScript == InitApiScript /\ [][NextApiScript]_vars

InitChunk ==
    /\ items = <<>>
    /\ cfg \in {c \in RetrievalConfigs : c.mode = "hybrid" /\ c.top_k = 1 /\ c.alpha = 35}
    /\ disk = EmptyDisk
    /\ hist = NoHist
    /\ api = NoApi
    /\ ret = Idle

NextChunk ==
    \/ \E t \in Texts, target \in 1..MaxTarget, overlap \in 0..MaxTarget :
          ChunkStart(t, target, overlap)
    \/ ChunkIter
    \/ ChunkReturn

SpecChunk == InitChunk /\ [][NextChunk]_vars

\* the interpreter runs a started call on: the loop pass and the return are
\* taken whenever they stay possible
SpecChunkFair == SpecChunk /\ WF_vars(ChunkIter) /\ WF_vars(ChunkReturn)
====
